---- MODULE Spec2Model ----
(***************************************************************************)
(* Clear Skies: the risk-brief scoring engine (src/src/risk.ts, the        *)
(* revision at lines 669-1039), the checkpoint-wait source resolver        *)
(* (src/src/providers/tsa.ts) and the providers they call.                 *)
(*                                                                         *)
(* Numbers.  Scores and weights are held in hundredths (0.35 is 35) and    *)
(* the aggregate riskScore, a sum of score x weight, in ten-thousandths.   *)
(* Visibility is held in tenths of a km, every other weather feature in    *)
(* whole units.  Wall-clock time is counted in ticks of thirty minutes.       *)
(*                                                                         *)
(* Text.  A string is a tuple of one-character strings, so that            *)
(* toLowerCase, join and RegExp.test are computed on the characters.       *)
(* A JavaScript object is a record; an absent property is a field that is  *)
(* not in the record's DOMAIN.                                             *)
(***************************************************************************)
EXTENDS Integers, Sequences, FiniteSets, TLC

(***************************************************************************)
(* Bounds of the model                                                     *)
(***************************************************************************)
\* the clock runs from 0 to MaxNow ticks
MaxNow == 3
\* the aggregate scores tierFromScore is tried on lie TierStep ten-thousandths apart
TierStep == 500
\* a headline batch given to scoreNews has at most MaxHits headlines
MaxHits == 2
MaxRuns == 2

(***************************************************************************)
(* Text                                                                    *)
(***************************************************************************)
UpperToLower ==
  [A |-> "a", B |-> "b", C |-> "c", D |-> "d", E |-> "e", F |-> "f",
   G |-> "g", H |-> "h", I |-> "i", J |-> "j", K |-> "k", L |-> "l",
   M |-> "m", N |-> "n", O |-> "o", P |-> "p", Q |-> "q", R |-> "r",
   S |-> "s", T |-> "t", U |-> "u", V |-> "v", W |-> "w", X |-> "x",
   Y |-> "y", Z |-> "z"]

\* String.prototype.toLowerCase
toLowerCase(s) ==
  [i \in 1..Len(s) |-> IF s[i] \in DOMAIN UpperToLower THEN UpperToLower[s[i]] ELSE s[i]]

\* String.prototype.includes
includes(hay, needle) ==
  \E i \in 0..(Len(hay) - Len(needle)) : SubSeq(hay, i + 1, i + Len(needle)) = needle

\* /(a|b|c)/i.test(s) for a set alts of lower-case literal alternatives
test(alts, s) ==
  \E a \in alts : includes(toLowerCase(s), a)

\* Array.prototype.join
RECURSIVE join(_, _)
join(strs, sep) ==
  IF strs = <<>> THEN <<>>
  ELSE IF Len(strs) = 1 THEN strs[1]
  ELSE strs[1] \o sep \o join(Tail(strs), sep)

(***************************************************************************)
(* Numbers and arrays                                                      *)
(***************************************************************************)
\* Math.max(a, b) and Math.min(a, b); each argument is evaluated once
Max2(a, b) == CHOOSE m \in {IF x >= y THEN x ELSE y : x \in {a}, y \in {b}} : TRUE
Min2(a, b) == CHOOSE m \in {IF x <= y THEN x ELSE y : x \in {a}, y \in {b}} : TRUE

\* Math.max(...xs, dflt) and Math.min(...xs, dflt) over the values of a tuple
MaxOf(xs, dflt) ==
  LET S == {xs[i] : i \in DOMAIN xs} \cup {dflt}
  IN  CHOOSE m \in S : \A y \in S : y <= m
MinOf(xs, dflt) ==
  LET S == {xs[i] : i \in DOMAIN xs} \cup {dflt}
  IN  CHOOSE m \in S : \A y \in S : m <= y

RECURSIVE SumOf(_)
SumOf(xs) == IF xs = <<>> THEN 0 ELSE Head(xs) + SumOf(Tail(xs))

\* Array.prototype.slice(0, n)
slice0(xs, n) == SubSeq(xs, 1, Min2(n, Len(xs)))

\* h.f ?? dflt
Field(h, f, dflt) == IF f \in DOMAIN h THEN h[f] ELSE dflt

\* xs.slice().sort((a, b) => key(b) - key(a)), where ks[i] is key(xs[i]):
\* descending by key, and stable (elements with equal keys keep their order).
SortDescBy(xs, ks) ==
  LET n == Len(xs)
      rank(i) == 1 + Cardinality({j \in 1..n :
                       \/ ks[j] > ks[i]
                       \/ ks[j] = ks[i] /\ j < i})
  IN  [p \in 1..n |-> xs[CHOOSE i \in 1..n : rank(i) = p]]

(***************************************************************************)
(* Weights and tier (risk.ts 675-690)                                      *)
(***************************************************************************)
W_OPS    == 40
W_WX_DEP == 20
W_WX_ARR == 15
W_TSA    == 15
W_NEWS   == 10

\* a mis-set boundary: yellow starts one step late
tierFromScore_late(s) ==
  IF s <= 3000 THEN "green"
  ELSE IF s < 6000 THEN "yellow"
  ELSE "red"

\* s is the aggregate in ten-thousandths
tierFromScore(s) ==
  IF s < 3000 THEN "green"
  ELSE IF s < 6000 THEN "yellow"
  ELSE "red"

\* scores in hundredths
clamp01(x) == Max2(0, Min2(100, x))

(***************************************************************************)
(* Explanations are templates with their embedded values: the template     *)
(* name, the numbers, the upper- or lower-case tags and the free text that *)
(* the code interpolates.                                                  *)
(***************************************************************************)
Expl(tpl, nums, tags, text) == [tpl |-> tpl, nums |-> nums, tags |-> tags, text |-> text]

(***************************************************************************)
(* scoreWeatherFromForecast (risk.ts 692-756)                              *)
(***************************************************************************)
windowHours == 6
\* 3600_000 ms, in ticks of thirty minutes
TicksPerHour == 2

ThunderRe == { <<"t", "h", "u", "n", "d", "e", "r">>, <<"l", "i", "g", "h", "t", "n", "i", "n", "g">>, <<"s", "t", "o", "r", "m">> }
SnowRe    == { <<"s", "n", "o", "w">>, <<"f", "r", "e", "e", "z">>, <<"i", "c", "e">>, <<"s", "l", "e", "e", "t">>, <<"b", "l", "i", "z", "z", "a", "r", "d">> }
RainRe    == { <<"r", "a", "i", "n">>, <<"d", "r", "i", "z", "z", "l", "e">>, <<"s", "h", "o", "w", "e", "r">> }
FogRe     == { <<"f", "o", "g">>, <<"m", "i", "s", "t">> }

RECURSIVE flatMapHour(_)
flatMapHour(days) ==
  IF days = <<>> THEN <<>> ELSE Head(days).hour \o flatMapHour(Tail(days))

\* forecast?.forecast?.forecastday, or the empty tuple
ForecastDays(forecast) ==
  IF "forecast" \in DOMAIN forecast /\ "forecastday" \in DOMAIN forecast.forecast
  THEN forecast.forecast.forecastday ELSE <<>>

\* the hours the scorer looks at: those in [now, now + window], or else the first six
WeatherSample(forecast, now) ==
  LET hours == flatMapHour(ForecastDays(forecast))
      soon  == SelectSeq(hours, LAMBDA h :
                 /\ "time" \in DOMAIN h
                 /\ h.time >= now
                 /\ h.time <= now + windowHours * TicksPerHour)
  IN  IF Len(soon) > 0 THEN soon ELSE slice0(hours, 6)

WindProposal(maxWind) ==
  IF maxWind < 20 THEN 5
  ELSE IF maxWind < 35 THEN 15
  ELSE IF maxWind < 50 THEN 40
  ELSE IF maxWind < 70 THEN 70
  ELSE 90

\* a combination rule that averages the wind proposal with the running value
Combine_avg(r, proposal) == (r + proposal) \div 2

\* r = Math.max(r, proposal)
Combine(r, proposal) == Max2(r, proposal)

\* if (applies) r = Math.max(r, proposal)
Propose(r, applies, proposal) == IF applies THEN Combine(r, proposal) ELSE r

ScoreWeatherSample(sample) ==
  LET col(f, dflt) == [i \in 1..Len(sample) |-> Field(sample[i], f, dflt)]
      maxWind   == MaxOf(col("wind_kph", 0), 0)
      maxGust   == MaxOf(col("gust_kph", 0), 0)
      minVis    == MinOf(col("vis_km", 100), 100)
      maxPrecip == MaxOf(col("precip_mm", 0), 0)
      conditions == join([i \in 1..Len(sample) |->
                           toLowerCase(Field(sample[i], "condition", <<>>))], <<" ">>)
      thunder == test(ThunderRe, conditions)
      snow    == test(SnowRe, conditions)
      rain    == test(RainRe, conditions)
      fog     == test(FogRe, conditions)
      r0  == 0
      r1  == Combine(r0, WindProposal(maxWind))
      r2  == Propose(r1, maxGust > 45, 50)
      r3  == Propose(r2, maxGust > 65, 75)
      r4  == Propose(r3, minVis < 100, 10)
      r5  == Propose(r4, minVis < 50, 35)
      r6  == Propose(r5, minVis < 20, 60)
      r7  == Propose(r6, minVis < 10, 85)
      r8  == Propose(r7, maxPrecip > 1, 15)
      r9  == Propose(r8, maxPrecip > 5, 35)
      r10 == Propose(r9, maxPrecip > 10, 55)
      r11 == Propose(r10, thunder, 70)
      r12 == Propose(r11, snow, 60)
      r13 == Propose(r12, fog /\ minVis < 30, 50)
      r14 == Propose(r13, rain /\ maxPrecip > 5, 40)
      tags == (IF thunder THEN <<"THUNDER">> ELSE <<>>)
              \o (IF snow THEN <<"SNOW">> ELSE <<>>)
              \o (IF fog THEN <<"FOG">> ELSE <<>>)
  IN  [score  |-> clamp01(r14),
       detail |-> Expl("wx", <<maxWind, maxGust, minVis, maxPrecip>>, tags, <<>>)]

\* a day without an hour array: flatMap yields undefined and h.time throws
ForecastThrows(forecast) ==
  \E i \in DOMAIN ForecastDays(forecast) : "hour" \notin DOMAIN ForecastDays(forecast)[i]

scoreWeatherFromForecast(forecast, now) ==
  IF ForecastThrows(forecast)
  THEN \* the catch block answers
       [score |-> 20, detail |-> Expl("wx: error parsing forecast data", <<>>, <<>>, <<>>)]
  ELSE LET sample == WeatherSample(forecast, now)
       IN  IF Len(sample) = 0
           THEN [score |-> 20, detail |-> Expl("wx: no forecast data available", <<>>, <<>>, <<>>)]
           ELSE ScoreWeatherSample(sample)

(***************************************************************************)
(* scoreTsa (risk.ts 758-819)                                              *)
(***************************************************************************)
\* the value of new Date(s).getTime() for an unparseable s, and of Number(s)
\* for a non-numeric s: not finite
NotFinite == -1000000

\* x.WaitTime || 0, read as a number
WaitOf(x) ==
  IF "WaitTime" \in DOMAIN x /\ x.WaitTime # 0 THEN x.WaitTime ELSE 0

\* the map and filter steps: records with a date, a finite timestamp and a
\* finite, non-negative wait
TsaValid(series) ==
  LET keep(x) == /\ "Created_Datetime" \in DOMAIN x
                 /\ x.Created_Datetime # NotFinite
                 /\ WaitOf(x) # NotFinite
                 /\ WaitOf(x) >= 0
      kept == SelectSeq(series, keep)
  IN  [i \in 1..Len(kept) |-> [t |-> kept[i].Created_Datetime, w |-> WaitOf(kept[i])]]

\* the first six valid records in the order of the series
TsaRecent_unsorted(series) == slice0(TsaValid(series), 6)

TsaRecent(series) ==
  LET valid == TsaValid(series)
  IN  slice0(SortDescBy(valid, [i \in 1..Len(valid) |-> valid[i].t]), 6)

\* Math.round(sum / n) for sum >= 0
RoundDiv(sum, n) == (2 * sum + n) \div (2 * n)

\* a short lead time scores like a wait above ninety minutes, whatever the lead
TsaBase_flat(leadMins, fromWaits) ==
  IF leadMins < 90 THEN 75
  ELSE IF leadMins >= 180 THEN 5
  ELSE fromWaits

\* the score before the last adjustment (risk.ts 786-808): the lead time
\* alone below 90 and from 180 minutes, the waits in between
TsaBase(leadMins, fromWaits) ==
  IF leadMins < 45 THEN 90
  ELSE IF leadMins < 60 THEN 70
  ELSE IF leadMins < 90 THEN 40
  ELSE IF leadMins >= 180 THEN 5
  ELSE fromWaits

\* no adjustment for long waits under an ample lead time
TsaAmple_never(leadMins, sum, n, r) == r

\* leadMins >= 120 && avg > 45 (risk.ts 811-813); avg > 45 is sum > 45 * n
TsaAmple(leadMins, sum, n, r) ==
  IF leadMins >= 120 /\ sum > 45 * n THEN Max2(r, 40) ELSE r

\* an element of the series that is null: reading its Created_Datetime throws
\* inside the try block
IsNull(x) == "null" \in DOMAIN x

scoreTsa(waitJson, leadMins) ==
  LET series == Field(waitJson, "WaitTimes", <<>>)
  IN  IF \E i \in DOMAIN series : IsNull(series[i])
      THEN [score |-> 15, detail |-> Expl("tsa: error parsing data", <<>>, <<>>, <<>>)]
      ELSE
  LET recent == TsaRecent(series)
      n      == Len(recent)
      ws     == [i \in 1..n |-> recent[i].w]
      sum    == SumOf(ws)
      max    == MaxOf(ws, 0)
      \* avg < k is sum < k * n
      band   == IF sum < 10 * n THEN 5
                ELSE IF sum < 20 * n THEN 15
                ELSE IF sum < 30 * n THEN 30
                ELSE IF sum < 45 * n THEN 50
                ELSE 70
      b1     == IF max > 60 THEN Max2(band, 60) ELSE band
      b2     == IF max > 90 THEN Max2(b1, 75) ELSE b1
      r      == TsaBase(leadMins, b2)
      rr     == TsaAmple(leadMins, sum, n, r)
  IN  IF n = 0
      THEN [score |-> 15, detail |-> Expl("tsa: no recent data", <<>>, <<>>, <<>>)]
      ELSE [score  |-> clamp01(rr),
            detail |-> Expl("tsa", <<RoundDiv(sum, n), max, leadMins>>, <<>>, <<>>)]

(***************************************************************************)
(* scoreNews (risk.ts 821-882)                                             *)
(***************************************************************************)
NewsClasses ==
  << [re |-> { <<"s", "t", "r", "i", "k", "e">>, <<"w", "a", "l", "k", "o", "u", "t">>, <<"i", "n", "d", "u", "s", "t", "r", "i", "a", "l", " ", "a", "c", "t", "i", "o", "n">>, <<"l", "a", "b", "o", "r", " ", "d", "i", "s", "p", "u", "t", "e">> },
      floor |-> 75, tag |-> "STRIKE"],
     [re |-> { <<"o", "u", "t", "a", "g", "e">>, <<"s", "y", "s", "t", "e", "m", " ", "f", "a", "i", "l", "u", "r", "e">>, <<"i", "t", " ", "o", "u", "t", "a", "g", "e">>, <<"m", "e", "l", "t", "d", "o", "w", "n">>, <<"c", "y", "b", "e", "r", "a", "t", "t", "a", "c", "k">> },
      floor |-> 70, tag |-> "OUTAGE"],
     [re |-> { <<"g", "r", "o", "u", "n", "d", " ", "s", "t", "o", "p">>, <<"g", "r", "o", "u", "n", "d", " ", "d", "e", "l", "a", "y", " ", "p", "r", "o", "g", "r", "a", "m">>, <<"g", "d", "p">>, <<"e", "d", "c", "t">> },
      floor |-> 65, tag |-> "GROUND-STOP"],
     [re |-> { <<"a", "t", "c">>, <<"a", "i", "r", " ", "t", "r", "a", "f", "f", "i", "c">>, <<"c", "o", "n", "t", "r", "o", "l", "l", "e", "r", " ", "s", "h", "o", "r", "t", "a", "g", "e">> },
      floor |-> 55, tag |-> "ATC"],
     [re |-> { <<"h", "u", "r", "r", "i", "c", "a", "n", "e">>, <<"t", "y", "p", "h", "o", "o", "n">>, <<"b", "l", "i", "z", "z", "a", "r", "d">>, <<"s", "e", "v", "e", "r", "e", " ", "s", "t", "o", "r", "m">> },
      floor |-> 55, tag |-> "SEVERE-WEATHER"],
     [re |-> { <<"c", "a", "n", "c", "e", "l">>, <<"c", "a", "n", "c", "e", "l", "l", "a", "t", "i", "o", "n">>, <<"m", "a", "s", "s", " ", "c", "a", "n", "c", "e", "l", "l", "a", "t", "i", "o", "n">> },
      floor |-> 60, tag |-> "CANCELLATIONS"],
     [re |-> { <<"d", "e", "l", "a", "y">>, <<"d", "e", "l", "a", "y", "e", "d", " ", "f", "l", "i", "g", "h", "t", "s">>, <<"w", "i", "d", "e", "s", "p", "r", "e", "a", "d", " ", "d", "e", "l", "a", "y", "s">> },
      floor |-> 35, tag |-> "delays"],
     [re |-> { <<"s", "t", "o", "r", "m">>, <<"w", "e", "a", "t", "h", "e", "r", " ", "a", "d", "v", "i", "s", "o", "r", "y">>, <<"f", "o", "g">> },
      floor |-> 30, tag |-> "weather"],
     [re |-> { <<"a", "i", "r", "p", "o", "r", "t", " ", "c", "l", "o", "s", "u", "r", "e">>, <<"r", "u", "n", "w", "a", "y", " ", "c", "l", "o", "s", "u", "r", "e">> },
      floor |-> 65, tag |-> "CLOSURE"],
     [re |-> { <<"m", "a", "i", "n", "t", "e", "n", "a", "n", "c", "e">>, <<"c", "r", "e", "w", " ", "s", "h", "o", "r", "t", "a", "g", "e">>, <<"s", "t", "a", "f", "f", "i", "n", "g">> },
      floor |-> 25, tag |-> "ops-issues"] >>

\* h.title.toLowerCase() throws a TypeError when a hit has no title
NewsThrows(hits) == \E i \in DOMAIN hits : "title" \notin DOMAIN hits[i]

\* without the early return an empty batch matches no class and keeps r = 0
EmptyNewsScore_zero == clamp01(0)

EmptyNewsScore == 5

\* the floors of the matched classes added up
NewsCombine_sum(floors) == SumOf(floors)

\* the running maximum started at the empty-batch score
NewsCombine_fromEmpty(floors) == MaxOf(floors, 5)

\* let r = 0, then r = Math.max(r, floor) for each matched class
NewsCombine(floors) == MaxOf(floors, 0)

scoreNews(hits) ==
  IF Len(hits) = 0
  THEN [score |-> EmptyNewsScore, detail |-> Expl("news: no relevant alerts", <<>>, <<>>, <<>>)]
  ELSE LET joined  == join([i \in 1..Len(hits) |-> toLowerCase(hits[i].title)], <<" ", "|", " ">>)
           matched == SelectSeq(NewsClasses, LAMBDA c : test(c.re, joined))
           r       == NewsCombine([i \in 1..Len(matched) |-> matched[i].floor])
           keywords == [i \in 1..Len(matched) |-> matched[i].tag]
       IN  [score  |-> clamp01(r),
            detail |-> Expl("news: articles", <<Len(hits)>>, keywords, <<>>)]

(***************************************************************************)
(* The operations score of buildRiskBrief (risk.ts 896-956).               *)
(* Timestamps of a flight are minutes; an absent or empty property is a    *)
(* field outside the DOMAIN.                                               *)
(***************************************************************************)
\* flights?.data?.[0], as a tuple of zero or one flight
F0(flights) ==
  IF "data" \in DOMAIN flights /\ Len(flights.data) > 0
  THEN <<flights.data[1]>> ELSE <<>>

\* f?.leg?.scheduled and f?.leg?.estimated || f?.leg?.actual, as tuples of zero or one
Sched(f, leg) ==
  IF leg \in DOMAIN f /\ "scheduled" \in DOMAIN f[leg] THEN <<f[leg].scheduled>> ELSE <<>>
Est(f, leg) ==
  IF leg \in DOMAIN f /\ "estimated" \in DOMAIN f[leg] THEN <<f[leg].estimated>>
  ELSE IF leg \in DOMAIN f /\ "actual" \in DOMAIN f[leg] THEN <<f[leg].actual>>
  ELSE <<>>

Abs(x) == IF x < 0 THEN -x ELSE x

Delta(f, leg) ==
  IF Sched(f, leg) # <<>> /\ Est(f, leg) # <<>>
  THEN Abs(Est(f, leg)[1] - Sched(f, leg)[1]) ELSE 0

\* the delay of the departure alone
DelayMins_depOnly(f) == Delta(f, "departure")

DelayMins(f) == Max2(Delta(f, "departure"), Delta(f, "arrival"))

DelayBand(delayMins) ==
  IF delayMins <= 15 THEN 5
  ELSE IF delayMins <= 30 THEN 15
  ELSE IF delayMins <= 60 THEN 35
  ELSE IF delayMins <= 120 THEN 60
  ELSE 85

\* a cancellation that only raises the delay band, as the "active" floor does
CancelScore_floor(band) == Max2(band, 60)

CancelScore(band) == 100

OpsScore(f0) ==
  IF f0 = <<>>
  THEN [score |-> 25,
        explain |-> Expl("ops: flight not found (check flight number)", <<>>, <<>>, <<>>)]
  ELSE LET f == f0[1]
           status    == toLowerCase(Field(f, "status", <<>>))
           delayMins == DelayMins(f)
           band      == DelayBand(delayMins)
       IN  IF test({ <<"c", "a", "n", "c", "e", "l">> }, status)
           THEN [score |-> CancelScore(band), explain |-> Expl("ops: CANCELLED", <<>>, <<>>, <<>>)]
           ELSE IF test({ <<"d", "i", "v", "e", "r", "t">> }, status)
           THEN [score |-> 95, explain |-> Expl("ops: DIVERTED", <<>>, <<>>, <<>>)]
           ELSE IF test({ <<"l", "a", "n", "d", "e", "d">> }, status)
           THEN [score |-> 5, explain |-> Expl("ops: landed", <<delayMins>>, <<>>, <<>>)]
           ELSE IF test({ <<"a", "c", "t", "i", "v", "e">> }, status)
           THEN [score |-> Max2(band, 10), explain |-> Expl("ops: active", <<delayMins>>, <<>>, <<>>)]
           ELSE IF test({ <<"s", "c", "h", "e", "d", "u", "l", "e", "d">> }, status)
           THEN [score |-> band, explain |-> Expl("ops: scheduled", <<delayMins>>, <<>>, <<>>)]
           ELSE [score |-> band, explain |-> Expl("ops: status", <<delayMins>>, <<>>, status)]

\* f0?.leg?.iata, the empty string when absent
LegIata(f0, leg) ==
  IF f0 # <<>> /\ leg \in DOMAIN f0[1] /\ "iata" \in DOMAIN f0[1][leg]
  THEN f0[1][leg].iata ELSE <<>>

\* the payload's code first
OrStr_payloadFirst(a, b) == IF b # <<>> THEN b ELSE a

\* a || b on strings: the empty string is falsy
OrStr(a, b) == IF a # <<>> THEN a ELSE b

(***************************************************************************)
(* State                                                                   *)
(***************************************************************************)
VARIABLES
  now,          \* the wall clock, in ticks of thirty minutes
  cache,        \* the shared LRU cache: key -> [value, expires]
  upFlights,    \* what the flights endpoint answers: [kind, json]
  upAirport,    \* what the airports endpoint answers, per IATA code
  upForecast,   \* what the forecast endpoint answers, per "lat,lon"
  upTsa,        \* what the wait-time endpoint answers, per IATA code
  upNews,       \* what the news endpoint answers, per kind of query
  bpc,          \* buildRiskBrief: the await it is suspended at
  input,        \* buildRiskBrief: its RiskBriefInput
  loc,          \* buildRiskBrief: its local variables
  brief,        \* buildRiskBrief: the brief of the current run, once returned
  prev,         \* the input, instant and brief of the run before, if any
  tpc,          \* getTsaWaitTimes: the await it is suspended at
  tloc,         \* getTsaWaitTimes: its local variables
  tsaOut,       \* getTsaWaitTimes: what the last call returned, and how
  call,         \* a scorer called on its own: the arguments
  ret           \* a scorer called on its own: the result

upVars    == <<upFlights, upAirport, upForecast, upTsa, upNews>>
briefVars == <<bpc, input, loc, brief, prev>>
tsaVars   == <<tpc, tloc, tsaOut>>
fnVars    == <<call, ret>>
vars      == <<now, cache, upVars, briefVars, tsaVars, fnVars>>

(***************************************************************************)
(* cache.js: an LRU cache with a time to live per entry.  The capacity of  *)
(* 500 entries is never reached by the keys below.                         *)
(***************************************************************************)
\* cache.get(k), as a tuple of zero or one value
cacheGet(c, k) ==
  IF k \in DOMAIN c /\ now < c[k].expires THEN <<c[k].value>> ELSE <<>>

\* cache.set(k, v, { ttl })
cacheSet(c, k, v, ttl) ==
  [x \in DOMAIN c \cup {k} |->
     IF x = k THEN [value |-> v, expires |-> now + ttl] ELSE c[x]]

\* times to live, in ticks, rounded up: 30 s, 1 h, 10 min, 10 min, 1 h, 30 min
TtlFlights  == 1
TtlAirport  == 2
TtlForecast == 1
TtlNews     == 1
TtlTsa      == 2
TtlTsaNews  == 1

(***************************************************************************)
(* providers/aviationstack.ts (tsa.ts 130-239)                             *)
(***************************************************************************)
getMockFlightData(flightIata) ==
  [data |-> << [flight_status |-> <<"s", "c", "h", "e", "d", "u", "l", "e", "d">>,
                departure |-> [iata |-> <<"J", "F", "K">>, scheduled |-> 600],
                arrival   |-> [iata |-> <<"L", "A", "X">>, scheduled |-> 780],
                airline   |-> [name |-> <<"S", "a", "m", "p", "l", "e", " ", "A", "i", "r", "l", "i", "n", "e">>, iata |-> slice0(flightIata, 2)]] >>]

\* never throws: every failure is answered with the mock flight
getFlightByIata(flightIata) ==
  LET ck  == <<"aviationstack:flights", flightIata>>
      hit == cacheGet(cache, ck)
  IN  IF hit # <<>> THEN [ret |-> hit[1], cache |-> cache, fetched |-> FALSE]
      ELSE IF upFlights.kind = "ok"
      THEN [ret |-> upFlights.json,
            cache |-> cacheSet(cache, ck, upFlights.json, TtlFlights), fetched |-> TRUE]
      ELSE [ret |-> getMockFlightData(flightIata), cache |-> cache, fetched |-> TRUE]

\* a lookup whose cache hits answer without the coordinates
getAirportByIata_hitNoCoords(iata) ==
  LET ck  == <<"aviationstack:airports", iata>>
      hit == cacheGet(cache, ck)
      up  == upAirport[iata]
  IN  IF hit # <<>> /\ hit[1] # <<>>
      THEN [throws |-> FALSE, ret |-> << [hit[1][1] EXCEPT !.lat = <<>>, !.lon = <<>>] >>,
            cache |-> cache]
      ELSE IF up.kind # "ok"
      THEN [throws |-> TRUE, ret |-> <<>>, cache |-> cache]
      ELSE LET result == IF up.data = <<>> THEN <<>>
                         ELSE << [iata |-> up.data[1].iata_code,
                                  name |-> Field(up.data[1], "airport_name", <<>>),
                                  lat  |-> Field(up.data[1], "latitude", <<>>),
                                  lon  |-> Field(up.data[1], "longitude", <<>>)] >>
           IN  [throws |-> FALSE, ret |-> result,
                cache |-> cacheSet(cache, ck, result, TtlAirport)]

\* throws on a rejected fetch, a non-OK status, an unparseable body and an API-level error
getAirportByIata(iata) ==
  LET ck  == <<"aviationstack:airports", iata>>
      hit == cacheGet(cache, ck)
      up  == upAirport[iata]
  IN  IF hit # <<>> /\ hit[1] # <<>>
      THEN [throws |-> FALSE, ret |-> hit[1], cache |-> cache]
      ELSE IF up.kind # "ok"
      THEN [throws |-> TRUE, ret |-> <<>>, cache |-> cache]
      ELSE LET result == IF up.data = <<>> THEN <<>>
                         ELSE << [iata |-> up.data[1].iata_code,
                                  name |-> Field(up.data[1], "airport_name", <<>>),
                                  lat  |-> Field(up.data[1], "latitude", <<>>),
                                  lon  |-> Field(up.data[1], "longitude", <<>>)] >>
           IN  [throws |-> FALSE, ret |-> result,
                cache |-> cacheSet(cache, ck, result, TtlAirport)]

(***************************************************************************)
(* providers/weatherapi.ts (unnamed/part_002)                              *)
(***************************************************************************)
\* throws on a rejected fetch, a non-OK status and an unparseable body
getForecast(lat, lon) ==
  LET q   == lat \o <<",">> \o lon
      ck  == <<"weatherapi", q>>
      hit == cacheGet(cache, ck)
      up  == upForecast[q]
  IN  IF hit # <<>>
      THEN [throws |-> FALSE, ret |-> hit[1], cache |-> cache]
      ELSE IF up.kind # "ok"
      THEN [throws |-> TRUE, ret |-> <<>>, cache |-> cache]
      ELSE [throws |-> FALSE, ret |-> up.json,
            cache |-> cacheSet(cache, ck, up.json, TtlForecast)]

(***************************************************************************)
(* providers/newsdata.ts                                                   *)
(***************************************************************************)
\* (json?.results || []).map(r => ({ title: r.title, link: r.link || r.url, ... }))
NewsHits(json) == Field(json, "results", <<>>)

\* never throws: every failure is answered with the empty list.  kind names
\* the query for the upstream, q is its text, withDate tells whether fromIso is given.
searchNews(c, kind, q, withDate) ==
  LET ck  == <<"newsdata", q>>
      hit == cacheGet(c, ck)
      up  == upNews[kind]
  IN  IF hit # <<>> THEN [ret |-> hit[1], cache |-> c]
      ELSE IF up.kind = "ok"
      THEN [ret |-> NewsHits(up.json), cache |-> cacheSet(c, ck, NewsHits(up.json), TtlNews)]
      ELSE IF up.kind = "http422" /\ withDate /\ up.retryOk
      THEN [ret |-> NewsHits(up.json), cache |-> cacheSet(c, ck, NewsHits(up.json), TtlNews)]
      ELSE [ret |-> <<>>, cache |-> c]

(***************************************************************************)
(* providers/tsa.ts: getTsaWaitTimes and getTsaNewsBackup (tsa.ts 25-129)  *)
(***************************************************************************)
LowerToUpper ==
  [a |-> "A", b |-> "B", c |-> "C", d |-> "D", e |-> "E", f |-> "F",
   g |-> "G", h |-> "H", i |-> "I", j |-> "J", k |-> "K", l |-> "L",
   m |-> "M", n |-> "N", o |-> "O", p |-> "P", q |-> "Q", r |-> "R",
   s |-> "S", t |-> "T", u |-> "U", v |-> "V", w |-> "W", x |-> "X",
   y |-> "Y", z |-> "Z"]

\* String.prototype.toUpperCase
toUpperCase(s) ==
  [i \in 1..Len(s) |-> IF s[i] \in DOMAIN LowerToUpper THEN LowerToUpper[s[i]] ELSE s[i]]

\* cacheKey(url) of the wait-time URL, and the key the fallback result is stored under
TsaKey(iata)     == <<"tsa:GetWaitTimes", toUpperCase(iata)>>
TsaNewsKey(iata) == <<"tsa:news-backup", iata>>

\* the four queries of getTsaNewsBackup: the kind the upstream sees, and the text
TsaQueries(iata, airportName) ==
  << [kind |-> "line",       q |-> iata \o <<" ", "a", "i", "r", "p", "o", "r", "t", " ", "s", "e", "c", "u", "r", "i", "t", "y", " ", "l", "i", "n", "e">>],
     [kind |-> "tsa",        q |-> airportName \o <<" ", "T", "S", "A">>],
     [kind |-> "checkpoint", q |-> iata \o <<" ", "c", "h", "e", "c", "k", "p", "o", "i", "n", "t">>],
     [kind |-> "wait",       q |-> airportName \o <<" ", "s", "e", "c", "u", "r", "i", "t", "y", " ", "w", "a", "i", "t">>] >>

\* h.title as a Map key: a tuple of zero or one title
TitleOf(h) == IF "title" \in DOMAIN h THEN <<h.title>> ELSE <<>>

\* a deduplication that compares links, and so keeps two headlines with one title
Dedupe_byLink(all) ==
  LET n     == Len(all)
      first == SelectSeq([i \in 1..n |-> i],
                 LAMBDA i : \A j \in 1..(i - 1) : all[j].link # all[i].link)
  IN  [p \in 1..Len(first) |-> all[first[p]]]

\* Array.from(new Map(all.map(h => [h.title, h])).values()): one entry per
\* title, at the place of the title's first occurrence, holding its last occurrence
Dedupe(all) ==
  LET n     == Len(all)
      first == SelectSeq([i \in 1..n |-> i],
                 LAMBDA i : \A j \in 1..(i - 1) : TitleOf(all[j]) # TitleOf(all[i]))
      last(i) == CHOOSE j \in i..n :
                   /\ TitleOf(all[j]) = TitleOf(all[i])
                   /\ \A k \in (j + 1)..n : TitleOf(all[k]) # TitleOf(all[i])
  IN  [p \in 1..Len(first) |-> all[last(first[p])]]

\* a provenance that asks for more than one headline
BackupSource_min(uniqueHeadlines) ==
  IF Len(uniqueHeadlines) > 1 THEN "news_fallback" ELSE "no_data"

\* uniqueHeadlines.length > 0 ? "news_fallback" : "no_data"
BackupSource(uniqueHeadlines) ==
  IF Len(uniqueHeadlines) > 0 THEN "news_fallback" ELSE "no_data"

BackupResult(allHeadlines, airportName) ==
  LET uniqueHeadlines == Dedupe(allHeadlines)
  IN  [WaitTimes  |-> <<>>,
       newsBackup |-> [headlines |-> uniqueHeadlines, airportName |-> airportName,
                       keyIssues |-> <<>>],
       dataSource |-> BackupSource(uniqueHeadlines)]

NoTloc == [iata |-> <<>>, caller |-> "none", primary |-> "none", airportName |-> <<>>,
           qi |-> 0, allHeadlines |-> <<>>]
NoTsaOut == [how |-> "none", primary |-> "none", result |-> [WaitTimes |-> <<>>, dataSource |-> "none"]]

\* getTsaWaitTimes(iata) up to its first await: a cache hit returns at once,
\* otherwise the primary fetch is dispatched under its 5 s abort timer
TsaEnter(iata, caller) ==
  LET hit == cacheGet(cache, TsaKey(iata))
  IN  /\ tloc' = [NoTloc EXCEPT !.iata = iata, !.caller = caller]
      /\ IF hit # <<>>
         THEN /\ tpc' = "done"
              /\ tsaOut' = [how |-> "cache", primary |-> "none", result |-> hit[1]]
         ELSE /\ tpc' = "fetch"
              /\ tsaOut' = NoTsaOut
      /\ UNCHANGED cache

\* the primary fetch settles (tsa.ts 38-69): a usable answer is returned and
\* cached; a rejected fetch, a non-OK status, an unparseable body or an answer
\* without records enters getTsaNewsBackup, which first looks the airport up
TsaFetchSettles ==
  /\ tpc = "fetch"
  /\ LET up == upTsa[toUpperCase(tloc.iata)]
         json == IF up.kind = "ok" THEN up.json ELSE [WaitTimes |-> <<>>]
     IN  /\ up.kind # "hang"
         /\ IF up.kind \in {"ok", "badJson"} /\ Len(Field(json, "WaitTimes", <<>>)) > 0
            THEN LET result == [WaitTimes |-> json.WaitTimes, dataSource |-> "tsa_api"]
                 IN  /\ cache' = cacheSet(cache, TsaKey(tloc.iata), result, TtlTsa)
                     /\ tpc' = "done"
                     /\ tsaOut' = [how |-> "primary", primary |-> up.kind, result |-> result]
                     /\ tloc' = [tloc EXCEPT !.primary = up.kind]
            ELSE /\ tpc' = "airport"
                 /\ tloc' = [tloc EXCEPT !.primary = up.kind]
                 /\ UNCHANGED <<cache, tsaOut>>
  /\ UNCHANGED <<now, upVars, briefVars, fnVars>>

\* a primary fetch without its abort timer
TsaTimeout_never ==
  /\ FALSE
  /\ UNCHANGED vars

\* the 5 s timer fires on a request that has not answered: AbortError, caught
TsaTimeout ==
  /\ tpc = "fetch"
  /\ upTsa[toUpperCase(tloc.iata)].kind = "hang"
  /\ tpc' = "airport"
  /\ tloc' = [tloc EXCEPT !.primary = "timeout"]
  /\ UNCHANGED <<now, cache, tsaOut, upVars, briefVars, fnVars>>

\* getTsaNewsBackup: the airport lookup settles (tsa.ts 80-81, 122-128)
TsaAirportSettles ==
  /\ tpc = "airport"
  /\ LET a == getAirportByIata(tloc.iata)
     IN  IF a.throws
         THEN /\ tpc' = "done"
              /\ tsaOut' = [how |-> "backup-error", primary |-> tloc.primary,
                            result |-> [WaitTimes |-> <<>>, dataSource |-> "no_data"]]
              /\ UNCHANGED <<cache, tloc>>
         ELSE /\ tpc' = "search"
              /\ tloc' = [tloc EXCEPT
                            !.airportName = OrStr(IF a.ret = <<>> THEN <<>> ELSE a.ret[1].name, tloc.iata),
                            !.qi = 1]
              /\ cache' = a.cache
              /\ UNCHANGED tsaOut
  /\ UNCHANGED <<now, upVars, briefVars, fnVars>>

\* getTsaNewsBackup: one search settles (tsa.ts 93-98); after the fourth the
\* result is built, stored under the fallback key and returned (tsa.ts 100-121)
TsaSearchSettles ==
  /\ tpc = "search"
  /\ LET qs  == TsaQueries(tloc.iata, tloc.airportName)
         sr  == searchNews(cache, qs[tloc.qi].kind, qs[tloc.qi].q, FALSE)
         all == tloc.allHeadlines \o slice0(sr.ret, 3)
     IN  IF tloc.qi < Len(qs)
         THEN /\ tloc' = [tloc EXCEPT !.qi = tloc.qi + 1, !.allHeadlines = all]
              /\ cache' = sr.cache
              /\ UNCHANGED <<tpc, tsaOut>>
         ELSE LET result == BackupResult(all, tloc.airportName)
              IN  /\ tloc' = [tloc EXCEPT !.qi = tloc.qi + 1, !.allHeadlines = all]
                  /\ cache' = cacheSet(sr.cache, TsaNewsKey(tloc.iata), result, TtlTsaNews)
                  /\ tpc' = "done"
                  /\ tsaOut' = [how |-> "backup", primary |-> tloc.primary, result |-> result]
  /\ UNCHANGED <<now, upVars, briefVars, fnVars>>

\* POST /api/tools/tsa_wait_times and the tsa_wait_times tool (risk.ts 1249-1262,
\* server.ts 202-209) call the resolver for a given airport
ToolTsaCall(iata) ==
  /\ tpc = "idle" /\ bpc = "idle"
  /\ TsaEnter(iata, "tool")
  /\ UNCHANGED <<now, upVars, briefVars, fnVars>>

\* ... and answer with what it returned
ToolTsaReturn ==
  /\ tpc = "done" /\ tloc.caller = "tool"
  /\ tpc' = "idle"
  /\ UNCHANGED <<now, cache, tloc, tsaOut, upVars, briefVars, fnVars>>

\* thirty minutes pass while no request is being served
Tick ==
  /\ tpc = "idle" /\ bpc = "idle"
  /\ now < MaxNow
  /\ now' = now + 1
  /\ UNCHANGED <<cache, upVars, briefVars, tsaVars, fnVars>>

(***************************************************************************)
(* The upstream answers the model draws from                               *)
(***************************************************************************)
JFK == <<"J", "F", "K">>
LAX == <<"L", "A", "X">>

\* wait-time endpoint: a rejected fetch, no answer at all, a non-OK status, a
\* body that is not JSON, and JSON without, with no, with one and with two records
TsaUp ==
  { [kind |-> "netErr"], [kind |-> "hang"], [kind |-> "httpErr"], [kind |-> "badJson"],
    [kind |-> "ok", json |-> [message |-> "none"]],
    [kind |-> "ok", json |-> [WaitTimes |-> <<>>]],
    [kind |-> "ok", json |-> [WaitTimes |-> << [Created_Datetime |-> 3, WaitTime |-> 50] >>]],
    [kind |-> "ok", json |-> [WaitTimes |-> << [Created_Datetime |-> 3, WaitTime |-> 12],
                                               [WaitTime |-> 70] >>]] }

\* airports endpoint: a non-OK status, an API-level error, no such airport, an
\* airport without coordinates, an airport with coordinates
AirportUp(code) ==
  { [kind |-> "httpErr"], [kind |-> "apiError"],
    [kind |-> "ok", data |-> <<>>],
    [kind |-> "ok", data |-> << [iata_code |-> code] >>],
    [kind |-> "ok", data |-> << [iata_code |-> code, airport_name |-> code \o <<" ", "I", "n", "t", "l">>,
                                 latitude |-> <<"4">>, longitude |-> code] >>] }

H_lines   == [title |-> <<"L", "o", "n", "g", " ", "T", "S", "A", " ", "l", "i", "n", "e", "s", " ", "a", "t", " ", "J", "F", "K">>, link |-> "a"]
H_lines2  == [title |-> <<"L", "o", "n", "g", " ", "T", "S", "A", " ", "l", "i", "n", "e", "s", " ", "a", "t", " ", "J", "F", "K">>, link |-> "b"]
H_closure == [title |-> <<"J", "F", "K", " ", "c", "h", "e", "c", "k", "p", "o", "i", "n", "t", " ", "c", "l", "o", "s", "e", "d", " ", "a", "f", "t", "e", "r", " ", "s", "e", "c", "u", "r", "i", "t", "y", " ", "b", "r", "e", "a", "c", "h">>, link |-> "c"]
H_strike  == [title |-> <<"P", "i", "l", "o", "t", "s", " ", "S", "T", "R", "I", "K", "E", " ", "l", "o", "o", "m", "s", ",", " ", "s", "t", "o", "r", "m", " ", "d", "e", "l", "a", "y", "s", " ", "f", "l", "i", "g", "h", "t", "s">>, link |-> "d"]
H_calm    == [title |-> <<"N", "e", "w", " ", "l", "o", "u", "n", "g", "e", " ", "o", "p", "e", "n", "s">>, link |-> "e"]
H_untitled == [link |-> "f"]

\* news endpoint, for the searches of the fallback
TsaNewsUp ==
  { [kind |-> "httpErr"],
    [kind |-> "ok", json |-> [results |-> <<>>]],
    [kind |-> "ok", json |-> [results |-> <<H_lines>>]],
    [kind |-> "ok", json |-> [results |-> <<H_lines2, H_closure, H_calm, H_strike>>]] }

\* ... and for its third and fourth search
TsaNewsUpLate ==
  { [kind |-> "httpErr"],
    [kind |-> "ok", json |-> [results |-> <<H_lines>>]] }

\* news endpoint, for the search of the brief
BriefNewsUp ==
  { [kind |-> "httpErr"],
    [kind |-> "http422", retryOk |-> TRUE, json |-> [results |-> <<H_calm>>]],
    [kind |-> "ok", json |-> [results |-> <<H_strike, H_calm>>]],
    [kind |-> "ok", json |-> [results |-> <<H_untitled>>]] }

TsaNewsKinds == {"line", "tsa", "checkpoint", "wait"}

NoBrief == [returned |-> FALSE, rejected |-> FALSE]
NoLoc   == [leadMins |-> 0]
NoPrev  == [runs |-> 0, input |-> [flightIata |-> << >>], brief |-> NoBrief]
NoCall  == [fn |-> "none"]

IdleInit ==
  /\ now = 0
  /\ cache = << >>
  /\ bpc = "idle" /\ input = [flightIata |-> << >>] /\ loc = NoLoc
  /\ brief = NoBrief /\ prev = NoPrev
  /\ tpc = "idle" /\ tloc = NoTloc /\ tsaOut = NoTsaOut

(***************************************************************************)
(* SpecTsa: the resolver called through the tsa_wait_times tool            *)
(***************************************************************************)
InitTsa ==
  /\ IdleInit
  /\ call = NoCall /\ ret = NoCall
  /\ upFlights = [kind |-> "netErr"]
  /\ upForecast = << >>
  /\ upTsa \in [{JFK} -> TsaUp]
  /\ upAirport \in [{JFK} -> AirportUp(JFK)]
  /\ \E f \in [{"line", "tsa"} -> TsaNewsUp], g \in [{"checkpoint", "wait"} -> TsaNewsUpLate] :
       upNews = [k \in TsaNewsKinds \cup {"brief"} |->
                   IF k = "brief" THEN [kind |-> "httpErr"]
                   ELSE IF k \in DOMAIN f THEN f[k] ELSE g[k]]

NextTsa ==
  \/ ToolTsaCall(JFK)
  \/ TsaFetchSettles
  \/ TsaTimeout
  \/ TsaAirportSettles
  \/ TsaSearchSettles
  \/ ToolTsaReturn
  \/ Tick

SpecTsa == InitTsa /\ [][NextTsa]_vars

PrimaryFailed == {"netErr", "timeout", "httpErr", "badJson", "ok"}

\* C5: when the primary fetch failed (threw, timed out, answered with a non-OK
\* status or with zero records) and the headline searches yielded a non-empty
\* deduplicated headline set, the returned provenance is news_fallback.
C5_FallbackProvenance ==
  ( /\ tpc = "done"
    /\ tsaOut.how = "backup"
    /\ tsaOut.primary \in PrimaryFailed
    /\ Len(Dedupe(tloc.allHeadlines)) > 0 )
  => tsaOut.result.dataSource = "news_fallback"

\* the primary fetch timed out and the searches found exactly one distinct headline
C5_Witness ==
  /\ tpc = "done"
  /\ tsaOut.how = "backup"
  /\ tsaOut.primary = "timeout"
  /\ Len(Dedupe(tloc.allHeadlines)) = 1
  /\ tsaOut.result.dataSource = "news_fallback"

DistinctTitles(hs) ==
  \A i, j \in DOMAIN hs : i # j => TitleOf(hs[i]) # TitleOf(hs[j])

TagAgrees(r) ==
  /\ r.dataSource \in {"tsa_api", "news_fallback", "no_data"}
  /\ r.dataSource = "tsa_api" =>
       Len(r.WaitTimes) > 0 /\ "newsBackup" \notin DOMAIN r
  /\ r.dataSource = "news_fallback" =>
       /\ r.WaitTimes = <<>>
       /\ "newsBackup" \in DOMAIN r
       /\ Len(r.newsBackup.headlines) > 0
       /\ DistinctTitles(r.newsBackup.headlines)
  /\ r.dataSource = "no_data" =>
       /\ r.WaitTimes = <<>>
       /\ "newsBackup" \in DOMAIN r => r.newsBackup.headlines = <<>>

PureInit ==
  /\ IdleInit
  /\ upFlights = [kind |-> "netErr"]
  /\ upAirport = << >> /\ upForecast = << >> /\ upTsa = << >> /\ upNews = << >>
  /\ ret = NoCall

PureUnchanged == UNCHANGED <<now, cache, upVars, briefVars, tsaVars, call>>

(***************************************************************************)
(* SpecTier: tierFromScore on two aggregate scores                         *)
(***************************************************************************)
TierScores ==
  {k * TierStep : k \in 0..(10000 \div TierStep)}
  \cup {2999, 3000, 3001, 5999, 6000, 6001, 10000}

InitTier ==
  /\ PureInit
  /\ call \in {[fn |-> "tierFromScore", s1 |-> a, s2 |-> b] : a, b \in TierScores}

TierCall ==
  /\ call.fn = "tierFromScore" /\ ret = NoCall
  /\ ret' = [fn |-> "tierFromScore",
             t1 |-> tierFromScore(call.s1), t2 |-> tierFromScore(call.s2)]
  /\ PureUnchanged

NextTier == TierCall

SpecTier == InitTier /\ [][NextTier]_vars

Severity(t) == IF t = "green" THEN 0 ELSE IF t = "yellow" THEN 1 ELSE 2

\* C2: the tier is green iff the score is below 0.30, yellow iff it is at least
\* 0.30 and below 0.60, red iff it is at least 0.60; it is one of these three;
\* and of two scores the smaller never gets the more severe tier.
C2_TierStepFunction ==
  ret.fn = "tierFromScore" =>
    /\ ret.t1 \in {"green", "yellow", "red"}
    /\ (ret.t1 = "green") <=> (call.s1 < 3000)
    /\ (ret.t1 = "yellow") <=> (3000 <= call.s1 /\ call.s1 < 6000)
    /\ (ret.t1 = "red") <=> (call.s1 >= 6000)
    /\ call.s1 <= call.s2 => Severity(ret.t1) <= Severity(ret.t2)

\* the two boundaries themselves: 0.30 is yellow and 0.60 is red
C2_Witness ==
  /\ ret.fn = "tierFromScore"
  /\ call.s1 = 3000 /\ ret.t1 = "yellow"
  /\ call.s2 = 6000 /\ ret.t2 = "red"

(***************************************************************************)
(* SpecNews: scoreNews on a headline batch                                 *)
(***************************************************************************)
H_outage  == [title |-> <<"I", "T", " ", "o", "u", "t", "a", "g", "e", " ", "g", "r", "o", "u", "n", "d", "s", " ", "f", "l", "i", "g", "h", "t", "s">>, link |-> "g"]
H_cancel  == [title |-> <<"A", "i", "r", "l", "i", "n", "e", " ", "c", "a", "n", "c", "e", "l", "s", " ", "2", "0", "0", " ", "f", "l", "i", "g", "h", "t", "s">>, link |-> "h"]
H_staff   == [title |-> <<"S", "t", "a", "f", "f", "i", "n", "g", " ", "w", "o", "e", "s", " ", "a", "n", "d", " ", "m", "a", "i", "n", "t", "e", "n", "a", "n", "c", "e", " ", "b", "a", "c", "k", "l", "o", "g">>, link |-> "i"]

NewsHeadlines ==
  {H_lines, H_closure, H_strike, H_calm, H_untitled, H_outage, H_cancel, H_staff}

RECURSIVE SeqsUpTo(_, _)
SeqsUpTo(S, n) ==
  IF n = 0 THEN {<<>>}
  ELSE LET shorter == SeqsUpTo(S, n - 1)
       IN  shorter \cup {Append(q, x) : q \in shorter, x \in S}

InitNews ==
  /\ PureInit
  /\ call \in {[fn |-> "scoreNews", hits |-> hs] : hs \in SeqsUpTo(NewsHeadlines, MaxHits)}

NewsCall ==
  /\ call.fn = "scoreNews" /\ ret = NoCall
  /\ ret' = IF NewsThrows(call.hits)
            THEN [fn |-> "scoreNews", throws |-> TRUE]
            ELSE [fn |-> "scoreNews", throws |-> FALSE,
                  score |-> scoreNews(call.hits).score,
                  detail |-> scoreNews(call.hits).detail]
  /\ PureUnchanged

NextNews == NewsCall

SpecNews == InitNews /\ [][NextNews]_vars

\* C7: for an empty headline batch the news score is at most 0.10 and strictly
\* greater than 0.
C7_EmptyBatchNearZero ==
  (ret.fn = "scoreNews" /\ call.hits = <<>>) =>
    /\ ~ret.throws
    /\ ret.score > 0
    /\ ret.score <= 10

\* scoreNews has answered for the empty batch
C7_Witness ==
  /\ ret.fn = "scoreNews"
  /\ call.hits = <<>>
  /\ ret.score = 5

(***************************************************************************)
(* SpecWx: scoreWeatherFromForecast on a forecast, at an instant           *)
(***************************************************************************)
\* an optional property f with a value of vs
Opt(f, vs) == {<< >>} \cup {f :> v : v \in vs}

\* hours that differ in every feature; an absent feature is one the feed left out
WxHours(t) ==
  { [time |-> t] @@ w @@ g @@ v @@ p @@ c :
      w \in Opt("wind_kph", {40, 75}),
      g \in Opt("gust_kph", {50, 70}),
      v \in Opt("vis_km", {80, 40, 15, 5}),
      p \in Opt("precip_mm", {3, 7, 12}),
      c \in Opt("condition", { <<"S", "u", "n", "n", "y">>, <<"T", "h", "u", "n", "d", "e", "r", "y", " ", "o", "u", "t", "b", "r", "e", "a", "k", "s">>, <<"H", "e", "a", "v", "y", " ", "s", "n", "o", "w">>,
                               <<"F", "o", "g">>, <<"L", "i", "g", "h", "t", " ", "r", "a", "i", "n", " ", "s", "h", "o", "w", "e", "r">> }) }

CalmHour(t) == [time |-> t, wind_kph |-> 8, gust_kph |-> 12, vis_km |-> 100,
                precip_mm |-> 0, condition |-> <<"C", "l", "e", "a", "r">>]

\* one day with the hour under test alone, or before or after a calm hour
WxForecasts ==
  UNION { { [forecast |-> [forecastday |-> << [hour |-> <<h>>] >>]],
            [forecast |-> [forecastday |-> << [hour |-> <<h, CalmHour(2)>>] >>]] } :
          h \in WxHours(0) }
  \cup { [forecast |-> [forecastday |-> << [hour |-> <<CalmHour(0), h>>] >>]] :
          h \in WxHours(2) }
  \cup { [forecast |-> [forecastday |-> <<>>]], [error |-> "none"],
         [forecast |-> [forecastday |-> << [date |-> "none"] >>]] }

InitWx ==
  /\ PureInit
  /\ call \in {[fn |-> "scoreWeatherFromForecast", forecast |-> f, now |-> t] :
                 f \in WxForecasts, t \in 0..MaxNow}

WxCall ==
  /\ call.fn = "scoreWeatherFromForecast" /\ ret = NoCall
  /\ ret' = [fn |-> "scoreWeatherFromForecast",
             score  |-> scoreWeatherFromForecast(call.forecast, call.now).score,
             detail |-> scoreWeatherFromForecast(call.forecast, call.now).detail]
  /\ PureUnchanged

NextWx == WxCall

SpecWx == InitWx /\ [][NextWx]_vars

\* the features of the sample of the call, and the floor each proposes alone
CallSample ==
  IF ForecastThrows(call.forecast) THEN <<>> ELSE WeatherSample(call.forecast, call.now)
SampleMax(f) == MaxOf([i \in 1..Len(CallSample) |-> Field(CallSample[i], f, 0)], 0)
SampleMinVis == MinOf([i \in 1..Len(CallSample) |-> Field(CallSample[i], "vis_km", 100)], 100)
SampleSays(words) ==
  \E i \in 1..Len(CallSample) : test(words, Field(CallSample[i], "condition", <<>>))

WindFloor ==
  LET w == SampleMax("wind_kph")
  IN  IF w >= 70 THEN 90 ELSE IF w >= 50 THEN 70 ELSE IF w >= 35 THEN 40
      ELSE IF w >= 20 THEN 15 ELSE 5
GustFloor ==
  LET g == SampleMax("gust_kph")
  IN  IF g > 65 THEN 75 ELSE IF g > 45 THEN 50 ELSE 0
VisFloor ==
  LET v == SampleMinVis
  IN  IF v < 10 THEN 85 ELSE IF v < 20 THEN 60 ELSE IF v < 50 THEN 35
      ELSE IF v < 100 THEN 10 ELSE 0
PrecipFloor ==
  LET p == SampleMax("precip_mm")
  IN  IF p > 10 THEN 55 ELSE IF p > 5 THEN 35 ELSE IF p > 1 THEN 15 ELSE 0
KeywordFloor ==
  Max2(IF SampleSays({ <<"t", "h", "u", "n", "d", "e", "r">>, <<"l", "i", "g", "h", "t", "n", "i", "n", "g">>, <<"s", "t", "o", "r", "m">> }) THEN 70 ELSE 0,
  Max2(IF SampleSays({ <<"s", "n", "o", "w">>, <<"f", "r", "e", "e", "z">>, <<"i", "c", "e">>, <<"s", "l", "e", "e", "t">>, <<"b", "l", "i", "z", "z", "a", "r", "d">> }) THEN 60 ELSE 0,
  Max2(IF SampleSays({ <<"f", "o", "g">>, <<"m", "i", "s", "t">> }) /\ SampleMinVis < 30 THEN 50 ELSE 0,
       IF SampleSays({ <<"r", "a", "i", "n">>, <<"d", "r", "i", "z", "z", "l", "e">>, <<"s", "h", "o", "w", "e", "r">> }) /\ SampleMax("precip_mm") > 5
       THEN 40 ELSE 0)))

\* C8: for a non-empty sample the weather score is at least the floor that each
\* feature (wind, gust, visibility, precipitation, condition keyword) proposes
\* alone, and a minimum visibility below 1 km gives at least 0.85.
C8_MaxOfProposals ==
  (ret.fn = "scoreWeatherFromForecast" /\ Len(CallSample) > 0) =>
    /\ ret.score >= WindFloor
    /\ ret.score >= GustFloor
    /\ ret.score >= VisFloor
    /\ ret.score >= PrecipFloor
    /\ ret.score >= KeywordFloor
    /\ SampleMinVis < 10 => ret.score >= 85

\* visibility 0.5 km in one hour, every other feature calm, next to a calm hour
C8_Witness ==
  /\ ret.fn = "scoreWeatherFromForecast"
  /\ Len(CallSample) = 2
  /\ SampleMinVis = 5
  /\ WindFloor = 5 /\ GustFloor = 0 /\ PrecipFloor = 0 /\ KeywordFloor = 0
  /\ ret.score = 85

(***************************************************************************)
(* SpecOps: the operations block of buildRiskBrief on one flights answer   *)
(***************************************************************************)
\* one leg of a flight: any of its three timestamps may be missing
OpsLegs(code, sched) ==
  { [iata |-> code] @@ s @@ e @@ a :
      s \in Opt("scheduled", {sched}),
      e \in Opt("estimated", {sched, sched + 20, sched + 200}),
      a \in Opt("actual", {sched - 45}) }

\* the arrival is on time, late by 100 minutes, or without timestamps
OpsArrivals ==
  { [iata |-> LAX], [iata |-> LAX, scheduled |-> 780, estimated |-> 780],
    [iata |-> LAX, scheduled |-> 780, actual |-> 880] }

OpsStatuses ==
  { <<"c", "a", "n", "c", "e", "l", "l", "e", "d">>, <<"C", "a", "n", "c", "e", "l", "l", "e", "d">>, <<"C", "A", "N", "C", "E", "L", "E", "D", " ", "b", "y", " ", "a", "i", "r", "l", "i", "n", "e">>, <<"d", "i", "v", "e", "r", "t", "e", "d">>,
    <<"l", "a", "n", "d", "e", "d">>, <<"a", "c", "t", "i", "v", "e">>, <<"s", "c", "h", "e", "d", "u", "l", "e", "d">>, <<"i", "n", "c", "i", "d", "e", "n", "t">> }

\* flights as the code reads them (status) and as the mock names the field (flight_status)
OpsFlights ==
  { [departure |-> d, arrival |-> a] @@ s :
      d \in OpsLegs(JFK, 600), a \in OpsArrivals,
      s \in Opt("status", OpsStatuses) \cup {"flight_status" :> <<"c", "a", "n", "c", "e", "l", "l", "e", "d">>} }

InitOps ==
  /\ PureInit
  /\ call \in {[fn |-> "ops", flights |-> fl] :
                 fl \in {[data |-> <<f>>] : f \in OpsFlights}
                        \cup {[data |-> <<>>], [error |-> "none"]}}

OpsCall ==
  /\ call.fn = "ops" /\ ret = NoCall
  /\ ret' = [fn |-> "ops",
             score   |-> OpsScore(F0(call.flights)).score,
             explain |-> OpsScore(F0(call.flights)).explain]
  /\ PureUnchanged

NextOps == OpsCall

SpecOps == InitOps /\ [][NextOps]_vars

\* the snapshot of the call has a status, and it contains "cancel" in any case
CallStatusCancel ==
  /\ F0(call.flights) # <<>>
  /\ includes(toLowerCase(Field(F0(call.flights)[1], "status", <<>>)), <<"c", "a", "n", "c", "e", "l">>)

HasCoords(geo) == geo # <<>> /\ geo[1].lat # <<>> /\ geo[1].lon # <<>>

\* s.detail.replace(/^wx/, "wx dep")
ReplaceWx(detail, with) ==
  [tpl |-> with, nums |-> detail.nums, tags |-> detail.tags, text |-> detail.text,
   rest |-> detail.tpl]

\* the await that follows, given what the locals hold
PcNews(l)   == "news"
PcTsa(l)    == IF l.dep # <<>> THEN "tsa" ELSE PcNews(l)
PcWxArr(l)  == IF HasCoords(l.arrGeo) THEN "wxArr" ELSE PcTsa(l)
PcWxDep(l)  == IF HasCoords(l.depGeo) THEN "wxDep" ELSE PcWxArr(l)
PcGeoArr(l) == IF l.arr # <<>> THEN "geoArr" ELSE PcWxDep(l)
PcGeoDep(l) == IF l.dep # <<>> THEN "geoDep" ELSE PcGeoArr(l)

\* targetArrivalLeadMins ?? (paxType === "international" ? 180 : 120)
LeadMins(inp) ==
  IF "targetArrivalLeadMins" \in DOMAIN inp THEN inp.targetArrivalLeadMins
  ELSE IF Field(inp, "paxType", "domestic") = "international" THEN 180 ELSE 120

\* a default for the checkpoint component as high as a moderate wait
StartLoc_tsaHalf(inp) ==
  [leadMins |-> LeadMins(inp), f0 |-> <<>>, dep |-> <<>>, arr |-> <<>>,
   ops    |-> [score |-> 5, explain |-> Expl("ops: nominal", <<>>, <<>>, <<>>)],
   depGeo |-> <<>>, arrGeo |-> <<>>,
   wxDep  |-> [score |-> 10, explain |-> Expl("wx dep: n/a", <<>>, <<>>, <<>>)],
   wxArr  |-> [score |-> 10, explain |-> Expl("wx arr: n/a", <<>>, <<>>, <<>>)],
   tsa    |-> [score |-> 50, explain |-> Expl("tsa: n/a", <<>>, <<>>, <<>>)]]

\* the locals before the first await, with the defaults of risk.ts 963-964 and 977
StartLoc(inp) ==
  [leadMins |-> LeadMins(inp), f0 |-> <<>>, dep |-> <<>>, arr |-> <<>>,
   ops    |-> [score |-> 5, explain |-> Expl("ops: nominal", <<>>, <<>>, <<>>)],
   depGeo |-> <<>>, arrGeo |-> <<>>,
   wxDep  |-> [score |-> 10, explain |-> Expl("wx dep: n/a", <<>>, <<>>, <<>>)],
   wxArr  |-> [score |-> 10, explain |-> Expl("wx arr: n/a", <<>>, <<>>, <<>>)],
   tsa    |-> [score |-> 20, explain |-> Expl("tsa: n/a", <<>>, <<>>, <<>>)]]

\* the promise rejects: the error propagates to the caller of buildRiskBrief
Reject(at) ==
  /\ bpc' = "idle"
  /\ brief' = [returned |-> FALSE, rejected |-> TRUE, at |-> at]
  /\ loc' = NoLoc

\* the five components in their fixed order (risk.ts 989-995)
Components(l, news) ==
  << [key |-> "ops", score |-> l.ops.score, explanation |-> l.ops.explain, weight |-> W_OPS],
     [key |-> "weather_dep", score |-> l.wxDep.score, explanation |-> l.wxDep.explain,
      weight |-> W_WX_DEP],
     [key |-> "weather_arr", score |-> l.wxArr.score, explanation |-> l.wxArr.explain,
      weight |-> W_WX_ARR],
     [key |-> "tsa", score |-> l.tsa.score, explanation |-> l.tsa.explain, weight |-> W_TSA],
     [key |-> "news", score |-> news.score, explanation |-> news.detail, weight |-> W_NEWS] >>

\* an aggregate that weighs the five components alike
RiskScoreOf_mean(components) ==
  SumOf([i \in 1..Len(components) |-> components[i].score * 20])

\* components.reduce((s, c) => s + c.score * c.weight, 0), in ten-thousandths
RiskScoreOf(components) ==
  SumOf([i \in 1..Len(components) |-> components[i].score * components[i].weight])

\* a ranking by raw score
TopSignals_raw(components) ==
  LET top == slice0(SortDescBy(components,
                 [i \in 1..Len(components) |-> components[i].score]), 3)
  IN  [i \in 1..Len(top) |->
         [key |-> top[i].key, explanation |-> top[i].explanation, weight |-> top[i].weight]]

\* components.slice().sort(by score * weight, descending).slice(0, 3).map(...)
TopSignals(components) ==
  LET top == slice0(SortDescBy(components,
                 [i \in 1..Len(components) |-> components[i].score * components[i].weight]), 3)
  IN  [i \in 1..Len(top) |->
         [key |-> top[i].key, explanation |-> top[i].explanation, weight |-> top[i].weight]]

Recommendations(tier) ==
  IF tier = "red"
  THEN << "Hold backup flight or request protected rebooking window.",
          "Pre-book hotel with free cancellation near arrival.",
          "Arrive earlier for TSA or use PreCheck/Clear if available." >>
  ELSE IF tier = "yellow"
  THEN << "Monitor for gate/EDCT updates; enable push alerts.",
          "Consider earlier airport arrival buffer (+30-45m)." >>
  ELSE << "Proceed as planned; set alerts for status changes." >>

\* new Date().toISOString(), four times, to the tick
DataTimestamps ==
  [aviationstack |-> now, weatherapi |-> now, myTSA |-> now, newsdata |-> now]

\* the returned RiskBrief (risk.ts 1027-1038)
BuildBrief(inp, l, news) ==
  [returned |-> TRUE, rejected |-> FALSE,
   flightIata |-> inp.flightIata, date |-> inp.date,
   depIata |-> l.dep, arrIata |-> l.arr,
   riskScore |-> RiskScoreOf(Components(l, news)),
   tier |-> tierFromScore(RiskScoreOf(Components(l, news))),
   components |-> Components(l, news),
   topSignals |-> TopSignals(Components(l, news)),
   recommendedActions |-> Recommendations(tierFromScore(RiskScoreOf(Components(l, news)))),
   dataTimestamps |-> DataTimestamps]

\* POST /api/tools/risk_brief and the risk_brief tool (risk.ts 1281-1294):
\* buildRiskBrief(input) runs up to its first await
BriefCall(inp) ==
  /\ bpc = "idle" /\ tpc = "idle"
  /\ prev.runs < MaxRuns
  /\ prev' = [runs |-> prev.runs + 1, input |-> input, brief |-> brief]
  /\ input' = inp
  /\ loc' = StartLoc(inp)
  /\ brief' = NoBrief
  /\ bpc' = "flights"
  /\ UNCHANGED <<now, cache, upVars, tsaVars, fnVars>>

\* await getFlightByIata (risk.ts 897-956): f0, dep, arr and the ops score
BriefFlightsSettle ==
  /\ bpc = "flights"
  /\ LET r  == getFlightByIata(input.flightIata)
         l  == [loc EXCEPT
                  !.f0  = F0(r.ret),
                  !.dep = OrStr(Field(input, "depIata", <<>>), LegIata(F0(r.ret), "departure")),
                  !.arr = OrStr(Field(input, "arrIata", <<>>), LegIata(F0(r.ret), "arrival")),
                  !.ops = OpsScore(F0(r.ret))]
     IN  /\ loc' = l
         /\ cache' = r.cache
         /\ bpc' = PcGeoDep(l)
  /\ UNCHANGED <<now, input, brief, prev, upVars, tsaVars, fnVars>>

\* await getAirportByIata(dep) (risk.ts 959): not in a try block
BriefGeoDepSettle ==
  /\ bpc = "geoDep"
  /\ LET a == getAirportByIata(loc.dep)
         l == [loc EXCEPT !.depGeo = a.ret]
     IN  IF a.throws
         THEN Reject("geoDep") /\ UNCHANGED cache
         ELSE /\ loc' = l /\ cache' = a.cache /\ bpc' = PcGeoArr(l)
              /\ UNCHANGED brief
  /\ UNCHANGED <<now, input, prev, upVars, tsaVars, fnVars>>

\* await getAirportByIata(arr) (risk.ts 960): not in a try block
BriefGeoArrSettle ==
  /\ bpc = "geoArr"
  /\ LET a == getAirportByIata(loc.arr)
         l == [loc EXCEPT !.arrGeo = a.ret]
     IN  IF a.throws
         THEN Reject("geoArr") /\ UNCHANGED cache
         ELSE /\ loc' = l /\ cache' = a.cache /\ bpc' = PcWxDep(l)
              /\ UNCHANGED brief
  /\ UNCHANGED <<now, input, prev, upVars, tsaVars, fnVars>>

\* await getForecast(depGeo.lat, depGeo.lon) (risk.ts 965-969): not in a try block
BriefWxDepSettle ==
  /\ bpc = "wxDep"
  /\ LET w == getForecast(loc.depGeo[1].lat, loc.depGeo[1].lon)
     IN  IF w.throws
         THEN Reject("wxDep") /\ UNCHANGED cache
         ELSE /\ loc' = [loc EXCEPT !.wxDep =
                           [score   |-> scoreWeatherFromForecast(w.ret, now).score,
                            explain |-> ReplaceWx(scoreWeatherFromForecast(w.ret, now).detail,
                                                  "wx dep")]]
              /\ cache' = w.cache
              /\ bpc' = PcWxArr(loc)
              /\ UNCHANGED brief
  /\ UNCHANGED <<now, input, prev, upVars, tsaVars, fnVars>>

\* await getForecast(arrGeo.lat, arrGeo.lon) (risk.ts 970-974): not in a try block
BriefWxArrSettle ==
  /\ bpc = "wxArr"
  /\ LET w == getForecast(loc.arrGeo[1].lat, loc.arrGeo[1].lon)
     IN  IF w.throws
         THEN Reject("wxArr") /\ UNCHANGED cache
         ELSE /\ loc' = [loc EXCEPT !.wxArr =
                           [score   |-> scoreWeatherFromForecast(w.ret, now).score,
                            explain |-> ReplaceWx(scoreWeatherFromForecast(w.ret, now).detail,
                                                  "wx arr")]]
              /\ cache' = w.cache
              /\ bpc' = PcTsa(loc)
              /\ UNCHANGED brief
  /\ UNCHANGED <<now, input, prev, upVars, tsaVars, fnVars>>

\* getTsaWaitTimes(dep) is called (risk.ts 979) and runs up to its first await
BriefTsaCall ==
  /\ bpc = "tsa" /\ tpc = "idle"
  /\ TsaEnter(loc.dep, "brief")
  /\ bpc' = "tsaWait"
  /\ UNCHANGED <<now, input, loc, brief, prev, upVars, fnVars>>

\* await getTsaWaitTimes(dep) settles (risk.ts 979-981)
BriefTsaSettle ==
  /\ bpc = "tsaWait" /\ tpc = "done" /\ tloc.caller = "brief"
  /\ loc' = [loc EXCEPT !.tsa =
               [score   |-> scoreTsa(tsaOut.result, loc.leadMins).score,
                explain |-> scoreTsa(tsaOut.result, loc.leadMins).detail]]
  /\ tpc' = "idle"
  /\ bpc' = PcNews(loc)
  /\ UNCHANGED <<now, cache, input, brief, prev, tloc, tsaOut, upVars, fnVars>>

\* f0?.airline?.name || f0?.airline?.iata || ""
Airline(f0) ==
  IF f0 = <<>> \/ "airline" \notin DOMAIN f0[1] THEN <<>>
  ELSE OrStr(Field(f0[1].airline, "name", <<>>), Field(f0[1].airline, "iata", <<>>))

NewsQuery(l) ==
  Airline(l.f0) \o <<" ">> \o l.dep \o <<" ">> \o l.arr \o <<" ", "s", "t", "r", "i", "k", "e", " ", "O", "R", " ", "o", "u", "t", "a", "g", "e", " ", "O", "R", " ", "A", "T", "C", " ", "O", "R", " ", "w", "e", "a", "t", "h", "e", "r">>

\* await searchNews settles (risk.ts 984-986); scoreNews throws on a hit
\* without a title; otherwise the brief is assembled and returned (987-1038)
BriefNewsSettle ==
  /\ bpc = "news"
  /\ LET sr == searchNews(cache, "brief", NewsQuery(loc), TRUE)
     IN  /\ cache' = sr.cache
         /\ IF NewsThrows(sr.ret)
            THEN Reject("news")
            ELSE /\ brief' = BuildBrief(input, loc, scoreNews(sr.ret))
                 /\ bpc' = "idle"
                 /\ loc' = NoLoc
  /\ UNCHANGED <<now, input, prev, upVars, tsaVars, fnVars>>

(***************************************************************************)
(* SpecBrief: requests for a brief, against every world of upstream        *)
(* answers below, at most MaxRuns of them                                  *)
(***************************************************************************)
AA100 == <<"A", "A", "1", "0", "0">>

BriefInputs ==
  { [flightIata |-> AA100, date |-> "2025-03-01"],
    [flightIata |-> AA100, date |-> "2025-03-01", depIata |-> JFK, arrIata |-> LAX,
     paxType |-> "international"] }

\* flights endpoint: a failure (answered with the mock flight), no such flight,
\* a cancelled flight forty minutes late
BriefFlightsUp ==
  { [kind |-> "netErr"],
    [kind |-> "ok", json |-> [data |-> <<>>]],
    [kind |-> "ok", json |-> [data |-> <<
       [status |-> <<"c", "a", "n", "c", "e", "l", "l", "e", "d">>,
        departure |-> [iata |-> JFK, scheduled |-> 600, estimated |-> 640],
        arrival   |-> [iata |-> LAX, scheduled |-> 780],
        airline   |-> [name |-> <<"A", "c", "m", "e", " ", "A", "i", "r">>]] >>]] }

\* the key of upForecast for the coordinates AirportUp gives an airport
CoordsOf(code) == <<"4">> \o <<",">> \o code

\* a stormy hour at tick 0 and a calm hour at tick 2
StormThenCalm ==
  [forecast |-> [forecastday |-> << [hour |-> <<
     [time |-> 0, wind_kph |-> 55, gust_kph |-> 70, vis_km |-> 15, precip_mm |-> 12,
      condition |-> <<"T", "h", "u", "n", "d", "e", "r", "y", " ", "o", "u", "t", "b", "r", "e", "a", "k", "s">>],
     CalmHour(2) >>] >>]]

CalmDay == [forecast |-> [forecastday |-> << [hour |-> <<CalmHour(0), CalmHour(2)>>] >>]]

BriefForecastUp ==
  { [kind |-> "httpErr"], [kind |-> "ok", json |-> StormThenCalm],
    [kind |-> "ok", json |-> [forecast |-> [forecastday |-> << [date |-> "none"] >>]]] }

\* wait-time endpoint and the searches of its fallback
BriefTsaUp ==
  { [tsa |-> [kind |-> "hang"], news |-> [kind |-> "httpErr"]],
    [tsa |-> [kind |-> "httpErr"], news |-> [kind |-> "ok", json |-> [results |-> <<H_lines>>]]],
    [tsa |-> [kind |-> "ok", json |-> [WaitTimes |-> <<
                 [Created_Datetime |-> 3, WaitTime |-> 50],
                 [Created_Datetime |-> 2, WaitTime |-> 95] >>]],
     news |-> [kind |-> "httpErr"]] }

\* airports endpoint: a non-OK status, an airport without and with coordinates
BriefAirportUp(code) ==
  {x \in AirportUp(code) : x.kind = "httpErr" \/ (x.kind = "ok" /\ x.data # <<>>)}

InitBrief ==
  /\ IdleInit
  /\ call = NoCall /\ ret = NoCall
  /\ upFlights \in BriefFlightsUp
  /\ \E a \in BriefAirportUp(JFK),
          b \in {x \in BriefAirportUp(LAX) : x.kind = "ok" => "latitude" \in DOMAIN x.data[1]} :
       upAirport = (JFK :> a) @@ (LAX :> b)
  /\ \E f \in BriefForecastUp :
       upForecast = (CoordsOf(JFK) :> f) @@ (CoordsOf(LAX) :> [kind |-> "ok", json |-> CalmDay])
  /\ \E w \in BriefTsaUp, n \in BriefNewsUp :
       /\ upTsa = (JFK :> w.tsa)
       /\ upNews = [k \in TsaNewsKinds \cup {"brief"} |-> IF k = "brief" THEN n ELSE w.news]

NextBrief ==
  \/ \E inp \in BriefInputs : BriefCall(inp)
  \/ BriefFlightsSettle
  \/ BriefGeoDepSettle
  \/ BriefGeoArrSettle
  \/ BriefWxDepSettle
  \/ BriefWxArrSettle
  \/ BriefTsaCall
  \/ TsaFetchSettles
  \/ TsaTimeout
  \/ TsaAirportSettles
  \/ TsaSearchSettles
  \/ BriefTsaSettle
  \/ BriefNewsSettle
  \/ Tick

SpecBrief == InitBrief /\ [][NextBrief]_vars

ComponentKeys == <<"ops", "weather_dep", "weather_arr", "tsa", "news">>
ComponentWeights == <<W_OPS, W_WX_DEP, W_WX_ARR, W_TSA, W_NEWS>>

\* C1: in every brief buildRiskBrief returns, whatever the upstreams answered,
\* there are the five components with their fixed weights, each score lies in
\* [0,1], and riskScore is the sum of score x weight and so lies in [0,1].
C1_ScoresAndAggregate ==
  brief.returned =>
    /\ Len(brief.components) = 5
    /\ \A i \in 1..5 :
         /\ brief.components[i].key = ComponentKeys[i]
         /\ brief.components[i].weight = ComponentWeights[i]
         /\ brief.components[i].score >= 0
         /\ brief.components[i].score <= 100
    /\ brief.riskScore =
         SumOf([i \in 1..5 |-> brief.components[i].score * ComponentWeights[i]])
    /\ brief.riskScore >= 0
    /\ brief.riskScore <= 10000

\* a brief for a cancelled flight with a storm at the departure airport
C1_Witness ==
  /\ brief.returned
  /\ brief.components[1].score = 100
  /\ brief.components[2].score >= 70
  /\ brief.components[4].score > brief.components[5].score
  /\ brief.riskScore > 6000

\* score x weight of the component of the brief with the given key
Contribution(key) ==
  LET c == CHOOSE c \in {brief.components[i] : i \in 1..Len(brief.components)} : c.key = key
  IN  c.score * c.weight

SignalKeys == {brief.topSignals[i].key : i \in 1..Len(brief.topSignals)}

\* C3: topSignals has at most three entries, each of a distinct component, in
\* non-increasing order of score x weight, and no component left out
\* contributes strictly more than one that is included.
C3_TopSignalsByContribution ==
  brief.returned =>
    /\ Len(brief.topSignals) <= 3
    /\ \A i, j \in 1..Len(brief.topSignals) :
         i # j => brief.topSignals[i].key # brief.topSignals[j].key
    /\ \A k \in SignalKeys : \E i \in 1..5 : ComponentKeys[i] = k
    /\ \A i \in 1..(Len(brief.topSignals) - 1) :
         Contribution(brief.topSignals[i].key) >= Contribution(brief.topSignals[i + 1].key)
    /\ \A i \in 1..5 : ComponentKeys[i] \notin SignalKeys =>
         \A k \in SignalKeys : Contribution(ComponentKeys[i]) <= Contribution(k)

\* a brief in which a component left out has a higher raw score than one included
C3_Witness ==
  /\ brief.returned
  /\ Len(brief.topSignals) = 3
  /\ \E i, j \in 1..5 :
       /\ brief.components[i].key \in SignalKeys
       /\ brief.components[j].key \notin SignalKeys
       /\ brief.components[j].score > brief.components[i].score

\* the hours scoreWeatherFromForecast samples for an airport at instant t
LegForecastSample(iata, t) ==
  IF iata = <<>> THEN <<>>
  ELSE IF upAirport[iata].kind # "ok" THEN <<>>
  ELSE IF upAirport[iata].data = <<>> THEN <<>>
  ELSE IF "latitude" \notin DOMAIN upAirport[iata].data[1] THEN <<>>
  ELSE LET fc == upForecast[upAirport[iata].data[1].latitude \o <<",">>
                            \o upAirport[iata].data[1].longitude]
       IN  IF fc.kind # "ok" THEN <<>>
           ELSE IF ForecastThrows(fc.json) THEN <<>>
           ELSE WeatherSample(fc.json, t)

\* two completed runs on one input, at different instants
TwoRuns ==
  /\ brief.returned /\ prev.brief.returned
  /\ prev.input = input
  /\ prev.brief.dataTimestamps # brief.dataTimestamps

\* the six-hour windows of the two runs select the same forecast hours
SameWindow ==
  \A iata \in {brief.depIata, brief.arrIata} :
    LegForecastSample(iata, brief.dataTimestamps.weatherapi)
      = LegForecastSample(iata, prev.brief.dataTimestamps.weatherapi)

SansClock(b) == [f \in DOMAIN b \ {"dataTimestamps"} |-> b[f]]

\* C9, as the spec states it: two runs on identical inputs with identical
\* upstream payloads at different instants return identical briefs in every field.
C9_ByteIdentical ==
  TwoRuns => brief = prev.brief

\* C9, amended: two such runs agree on the flight, the date, the airports and
\* the ops, tsa and news components; when the six-hour forecast windows of the
\* two instants select the same hours they agree on every field but dataTimestamps.
C9_IdenticalUpToClock ==
  TwoRuns =>
    /\ brief.flightIata = prev.brief.flightIata
    /\ brief.date = prev.brief.date
    /\ brief.depIata = prev.brief.depIata
    /\ brief.arrIata = prev.brief.arrIata
    /\ \A i \in {1, 4, 5} : brief.components[i] = prev.brief.components[i]
    /\ SameWindow => SansClock(brief) = SansClock(prev.brief)

\* runs at ticks 0 and 3 over a forecast whose stormy hour both sample
C9_Witness ==
  /\ TwoRuns
  /\ SameWindow
  /\ brief.components[2].score >= 70
  /\ SansClock(brief) = SansClock(prev.brief)

\* C10: whichever upstream fails, times out or answers with malformed data,
\* buildRiskBrief completes with a brief and never throws or rejects.
C10_NeverRejects ==
  ~brief.rejected

\* the request of the run in progress or just finished names no airport, the
\* flights endpoint knows no such flight, and the news search finds nothing
NoSignalAtAll ==
  /\ "depIata" \notin DOMAIN input /\ "arrIata" \notin DOMAIN input
  /\ upFlights.kind = "ok" /\ F0(upFlights.json) = <<>>
  /\ upNews["brief"].kind = "httpErr"

\* C11: when the operations lookup returns no flight, no airport code is
\* supplied and no headline is found, the run returns a brief whose ops score is
\* 0.25 with the "flight not found" explanation, whose other four scores are
\* the absent-data values, each within [0.05, 0.20], and whose tier is green.
C11_FlightNotFoundBrief ==
  (NoSignalAtAll /\ prev.runs > 0 /\ bpc = "idle") =>
    /\ brief.returned
    /\ brief.components[1].score = 25
    /\ brief.components[1].explanation.tpl = "ops: flight not found (check flight number)"
    /\ \A i \in 2..5 : brief.components[i].score >= 5 /\ brief.components[i].score <= 20
    /\ brief.tier = "green"

\* such a brief: weather 0.10 and 0.10, checkpoint 0.20, news 0.05, aggregate 0.17
C11_Witness ==
  /\ NoSignalAtAll /\ brief.returned
  /\ [i \in 1..5 |-> brief.components[i].score] = <<25, 10, 10, 20, 5>>
  /\ brief.riskScore = 1700
  /\ brief.depIata = <<>>

(***************************************************************************)
(* llm-news-interpreter.ts (unnamed/part_005): interpretSecurityNews and   *)
(* its keyword fallback.  Risk scores are hundredths.                      *)
(***************************************************************************)
\* the six keyword classes of fallbackNewsAnalysis, in the order they are tested
IntelClasses ==
  << [re |-> { <<"c", "l", "o", "s", "u", "r", "e">>, <<"c", "l", "o", "s", "e", "d">>, <<"e", "v", "a", "c", "u", "a", "t", "e">>, <<"e", "v", "a", "c", "u", "a", "t", "i", "o", "n">>, <<"s", "h", "u", "t", "d", "o", "w", "n">> },
      floor |-> 85, issue |-> "Possible airport closure or evacuation", wait |-> "severe"],
     [re |-> { <<"b", "o", "m", "b">>, <<"t", "h", "r", "e", "a", "t">>, <<"s", "u", "s", "p", "i", "c", "i", "o", "u", "s", " ", "p", "a", "c", "k", "a", "g", "e">>, <<"s", "e", "c", "u", "r", "i", "t", "y", " ", "b", "r", "e", "a", "c", "h">> },
      floor |-> 80, issue |-> "Security incident reported", wait |-> "severe"],
     [re |-> { <<"s", "t", "r", "i", "k", "e">>, <<"w", "a", "l", "k", "o", "u", "t">>, <<"p", "r", "o", "t", "e", "s", "t">>, <<"l", "a", "b", "o", "r", " ", "a", "c", "t", "i", "o", "n">> },
      floor |-> 70, issue |-> "Labor action or protest affecting operations", wait |-> "high"],
     [re |-> { <<"o", "u", "t", "a", "g", "e">>, <<"s", "y", "s", "t", "e", "m", " ", "d", "o", "w", "n">>, <<"t", "e", "c", "h", "n", "i", "c", "a", "l", " ", "i", "s", "s", "u", "e">>, <<"c", "o", "m", "p", "u", "t", "e", "r", " ", "p", "r", "o", "b", "l", "e", "m">> },
      floor |-> 65, issue |-> "System outage or technical problems", wait |-> "high"],
     [re |-> { <<"l", "o", "n", "g", " ", "l", "i", "n", "e">>, <<"w", "a", "i", "t", " ", "t", "i", "m", "e">>, <<"d", "e", "l", "a", "y">>, <<"s", "l", "o", "w">>, <<"c", "r", "o", "w", "d", "e", "d">> },
      floor |-> 50, issue |-> "Extended wait times reported", wait |-> "moderate"],
     [re |-> { <<"s", "t", "a", "f", "f", " ", "s", "h", "o", "r", "t", "a", "g", "e">>, <<"u", "n", "d", "e", "r", "s", "t", "a", "f", "f", "e", "d">>, <<"s", "h", "o", "r", "t", " ", "s", "t", "a", "f", "f">> },
      floor |-> 45, issue |-> "Staffing issues", wait |-> "moderate"] >>

\* the recommendation of fallbackNewsAnalysis (part_005 161-166)
IntelRecommendation(riskScore) ==
  IF riskScore > 70
  THEN "Arrive 2+ hours early. Consider backup travel plans. Check airport status frequently."
  ELSE IF riskScore > 40
  THEN "Arrive 60-90 minutes earlier than usual. Check real-time airport updates."
  ELSE "Monitor airport status before departure."

\* the score of the class matched last, as the wait estimate is set
IntelCombine_last(floors) == IF floors = <<>> THEN 15 ELSE floors[Len(floors)]

\* let riskScore = 0.15, then riskScore = Math.max(riskScore, floor) per class
IntelCombine(floors) == MaxOf(floors, 15)

\* fallbackNewsAnalysis on headlines that all have a title: every matched class
\* raises the score to its floor, adds its issue and overwrites the wait estimate
fallbackNewsAnalysis(headlines, airportIata) ==
  LET combinedText == join([i \in 1..Len(headlines) |-> toLowerCase(headlines[i].title)],
                           <<" ">>)
      matched   == SelectSeq(IntelClasses, LAMBDA c : test(c.re, combinedText))
      riskScore == IntelCombine([i \in 1..Len(matched) |-> matched[i].floor])
      keyIssues == [i \in 1..Len(matched) |-> matched[i].issue]
  IN  [riskScore |-> riskScore,
       keyIssues |-> keyIssues,
       waitTimeEstimate |-> IF Len(matched) > 0 THEN matched[Len(matched)].wait ELSE "unknown",
       recommendation |-> IntelRecommendation(riskScore),
       confidence |-> IF Len(keyIssues) > 0 THEN "medium" ELSE "low",
       summary |-> IF Len(keyIssues) > 0
                   THEN Expl("Recent news indicates", <<>>, keyIssues, <<>>)
                   ELSE Expl("Limited recent security news", <<>>, <<>>, airportIata)]

\* the estimate returned without asking the service (part_005 32-40)
NoNewsEstimate ==
  [riskScore |-> 15, keyIssues |-> <<>>, waitTimeEstimate |-> "unknown",
   recommendation |-> "No recent security news. Normal precautions advised.",
   confidence |-> "low",
   summary |-> Expl("No specific security concerns detected in recent news.", <<>>, <<>>, <<>>)]

\* Math.max(0, Math.min(1, x || 0.15))
ClampRisk(x) == clamp01(IF x = 0 THEN 15 ELSE x)

\* interpretSecurityNews, given how the generateContent call settles: rejected,
\* text that JSON.parse refuses, the text "null", or a JSON object.  The try
\* block covers the call, the parse and the log line that reads riskScore.toFixed;
\* the catch block runs fallbackNewsAnalysis, whose h.title.toLowerCase() throws
\* on a headline without a title.
\* a guard that lets an empty headline list through
IntelShortCircuit_absentOnly(tsaData) == "newsBackup" \notin DOMAIN tsaData

\* the guard of the early return (part_005 31)
IntelShortCircuit(tsaData) ==
  \/ tsaData.dataSource = "tsa_api"
  \/ "newsBackup" \notin DOMAIN tsaData
  \/ Len(tsaData.newsBackup.headlines) = 0

interpretSecurityNews(tsaData, airportIata, llm) ==
  IF IntelShortCircuit(tsaData)
  THEN [threw |-> FALSE, path |-> "none", value |-> NoNewsEstimate]
  ELSE IF llm.kind = "json" /\ "riskScore" \in DOMAIN llm.json
  THEN [threw |-> FALSE, path |-> "service",
        value |-> [llm.json EXCEPT !.riskScore = ClampRisk(llm.json.riskScore)]]
  ELSE IF NewsThrows(tsaData.newsBackup.headlines)
  THEN [threw |-> TRUE, path |-> "fallback", value |-> NoNewsEstimate]
  ELSE [threw |-> FALSE, path |-> "fallback",
        value |-> fallbackNewsAnalysis(tsaData.newsBackup.headlines, airportIata)]

\* estimateWaitMinutes (part_005 187-196)
estimateWaitMinutes(estimate) ==
  IF estimate = "low" THEN 15
  ELSE IF estimate = "moderate" THEN 35
  ELSE IF estimate = "high" THEN 60
  ELSE IF estimate = "severe" THEN 90
  ELSE 20

(***************************************************************************)
(* SpecScenario: requests for a brief in the worlds where a source has     *)
(* nothing to give: no coordinates, no forecast hours, no wait records     *)
(***************************************************************************)
H_shut1 == [title |-> <<"F", "e", "d", "e", "r", "a", "l", " ", "s", "h", "u", "t", "d", "o", "w", "n", " ", "h", "i", "t", "s", " ", "T", "S", "A", " ", "s", "t", "a", "f", "f", "i", "n", "g", " ", "a", "t", " ", "J", "F", "K">>, link |-> "s1"]
H_shut2 == [title |-> <<"T", "S", "A", " ", "s", "t", "a", "f", "f", "i", "n", "g", " ", "t", "h", "i", "n", " ", "a", "s", " ", "f", "e", "d", "e", "r", "a", "l", " ", "s", "h", "u", "t", "d", "o", "w", "n", " ", "d", "r", "a", "g", "s", " ", "o", "n">>, link |-> "s2"]
H_shut3 == [title |-> <<"J", "F", "K", " ", "s", "e", "c", "u", "r", "i", "t", "y", " ", "l", "i", "n", "e", "s", " ", "g", "r", "o", "w", " ", "a", "m", "i", "d", " ", "f", "e", "d", "e", "r", "a", "l", " ", "s", "h", "u", "t", "d", "o", "w", "n">>, link |-> "s3"]
H_shut4 == [title |-> <<"F", "e", "d", "e", "r", "a", "l", " ", "s", "h", "u", "t", "d", "o", "w", "n", ":", " ", "a", "i", "r", "p", "o", "r", "t", " ", "s", "t", "a", "f", "f", "i", "n", "g", " ", "w", "o", "e", "s", " ", "d", "e", "e", "p", "e", "n">>, link |-> "s4"]
H_shut5 == [title |-> <<"S", "t", "a", "f", "f", "i", "n", "g", " ", "g", "a", "p", "s", " ", "a", "t", " ", "J", "F", "K", " ", "b", "l", "a", "m", "e", "d", " ", "o", "n", " ", "f", "e", "d", "e", "r", "a", "l", " ", "s", "h", "u", "t", "d", "o", "w", "n">>, link |-> "s5"]

\* forecasts without a usable hour: a day with an empty hour array, no day at all
EmptyHours == [forecast |-> [forecastday |-> << [hour |-> <<>>] >>]]
NoDays     == [forecast |-> [forecastday |-> <<>>]]

\* wait-time endpoint and the four searches of its fallback: no answer and no
\* headlines, or an answer without records and five headlines on the shutdown
ScenarioTsaUp ==
  { [tsa |-> [kind |-> "hang"],
     news |-> [k \in TsaNewsKinds |-> [kind |-> "httpErr"]]],
    [tsa |-> [kind |-> "ok", json |-> [WaitTimes |-> <<>>]],
     news |-> [k \in TsaNewsKinds |->
                 IF k = "line"
                 THEN [kind |-> "ok", json |-> [results |-> <<H_shut1, H_shut2, H_shut3>>]]
                 ELSE [kind |-> "ok", json |-> [results |-> <<H_shut4, H_shut5>>]]]] }

InitScenario ==
  /\ IdleInit
  /\ call = NoCall /\ ret = NoCall
  /\ upFlights \in {x \in BriefFlightsUp : x.kind = "ok" => x.json.data = <<>>}
  /\ \E a \in AirportUp(JFK), b \in {x \in AirportUp(LAX) : x.kind = "ok"} :
       upAirport = (JFK :> a) @@ (LAX :> b)
  /\ \E f \in {EmptyHours, NoDays, StormThenCalm}, g \in {EmptyHours, CalmDay} :
       upForecast = (CoordsOf(JFK) :> [kind |-> "ok", json |-> f])
                    @@ (CoordsOf(LAX) :> [kind |-> "ok", json |-> g])
  /\ \E w \in ScenarioTsaUp :
       /\ upTsa = (JFK :> w.tsa)
       /\ upNews = [k \in TsaNewsKinds \cup {"brief"} |->
                      IF k = "brief" THEN [kind |-> "httpErr"] ELSE w.news[k]]

SpecScenario == InitScenario /\ [][NextBrief]_vars

\* the titles of the headlines the checkpoint fallback returned, lower-cased and joined
BackupTitles ==
  join([i \in 1..Len(tsaOut.result.newsBackup.headlines) |->
          toLowerCase(tsaOut.result.newsBackup.headlines[i].title)], <<" ">>)

\* the brief just returned took its checkpoint data from a primary fetch that
\* answered with zero records and from headlines on the shutdown and on staffing
ScenarioC ==
  /\ brief.returned
  /\ tloc.caller = "brief" /\ tsaOut.how = "backup" /\ tsaOut.primary = "ok"
  /\ Len(tsaOut.result.newsBackup.headlines) = 5
  /\ includes(BackupTitles, <<"f", "e", "d", "e", "r", "a", "l", " ", "s", "h", "u", "t", "d", "o", "w", "n">>)
  /\ includes(BackupTitles, <<"s", "t", "a", "f", "f", "i", "n", "g">>)

\* C12: in scenario C the provenance of the checkpoint data is the fallback, the
\* estimate drawn from the headlines has at least medium confidence, and the
\* tsa component of the brief scores at least 0.45.
C12_TsaBackedByEstimate ==
  ScenarioC =>
    /\ tsaOut.result.dataSource = "news_fallback"
    /\ fallbackNewsAnalysis(tsaOut.result.newsBackup.headlines, JFK).confidence
         \in {"medium", "high"}
    /\ brief.components[4].score >= 45

(***************************************************************************)
(* SpecIntel: interpretSecurityNews on the results getTsaWaitTimes can     *)
(* return and the ways the generateContent call can settle                 *)
(***************************************************************************)
H_package == [title |-> <<"S", "u", "s", "p", "i", "c", "i", "o", "u", "s", " ", "p", "a", "c", "k", "a", "g", "e", " ", "f", "o", "u", "n", "d", " ", "a", "t", " ", "J", "F", "K", " ", "T", "e", "r", "m", "i", "n", "a", "l", " ", "4">>, link |-> "p1"]
H_short   == [title |-> <<"U", "n", "d", "e", "r", "s", "t", "a", "f", "f", "e", "d", " ", "c", "h", "e", "c", "k", "p", "o", "i", "n", "t", "s", " ", "a", "t", " ", "J", "F", "K", " ", "t", "h", "i", "s", " ", "w", "e", "e", "k", "e", "n", "d">>, link |-> "p2"]

IntelHeadlines ==
  {H_shut1, H_lines, H_strike, H_calm, H_untitled, H_package, H_short, H_outage}

IntelTsaData ==
  { [WaitTimes |-> << [Created_Datetime |-> 3, WaitTime |-> 50] >>, dataSource |-> "tsa_api"],
    [WaitTimes |-> <<>>, dataSource |-> "no_data"] }
  \cup { BackupResult(hs, JFK) : hs \in SeqsUpTo(IntelHeadlines, 2) }

FullEstimate(riskScore) ==
  [riskScore |-> riskScore, keyIssues |-> <<"Long security lines">>,
   waitTimeEstimate |-> "high", recommendation |-> "Arrive early.",
   confidence |-> "high",
   summary |-> Expl("Lines are long.", <<>>, <<>>, <<>>)]

\* the call rejects (network, quota, a deadline of the client library); its text
\* is not JSON; its text is "null"; an object without riskScore; an object with
\* nothing but riskScore; a complete object with riskScore 0, in range, above 1,
\* below 0
LlmUp ==
  { [kind |-> "error"], [kind |-> "badJson"], [kind |-> "null"],
    [kind |-> "json", json |-> [keyIssues |-> <<>>]],
    [kind |-> "json", json |-> [riskScore |-> 50]] }
  \cup { [kind |-> "json", json |-> FullEstimate(r)] : r \in {0, 60, 700, -20} }

InitIntel ==
  /\ PureInit
  /\ call \in {[fn |-> "interpretSecurityNews", tsaData |-> d, llm |-> l] :
                 d \in IntelTsaData, l \in LlmUp}

IntelCall ==
  /\ call.fn = "interpretSecurityNews" /\ ret = NoCall
  /\ ret' = [fn |-> "interpretSecurityNews"]
            @@ interpretSecurityNews(call.tsaData, JFK, call.llm)
  /\ PureUnchanged

NextIntel == IntelCall

SpecIntel == InitIntel /\ [][NextIntel]_vars

\* the call had headlines to interpret
IntelHadHeadlines ==
  /\ call.fn = "interpretSecurityNews" /\ ret # NoCall
  /\ call.tsaData.dataSource = "news_fallback"

EstimateFields ==
  {"riskScore", "keyIssues", "waitTimeEstimate", "recommendation", "confidence", "summary"}

\* the service gave no estimate of the documented shape
LlmFailed(llm) == llm.kind # "json" \/ DOMAIN llm.json # EstimateFields

\* C14: for every non-empty headline set interpretSecurityNews returns and never
\* throws, and when the generative-text call errors or returns unparseable or
\* malformed output, what it returns is the keyword fallback's result.
C14_FallbackOnEveryFailure ==
  IntelHadHeadlines =>
    /\ ~ret.threw
    /\ LlmFailed(call.llm) =>
         ret.value = fallbackNewsAnalysis(call.tsaData.newsBackup.headlines, JFK)

(***************************************************************************)
(* SpecEntry: the three entry points of a risk brief, on requests with and *)
(* without the flight identifier and the date                              *)
(***************************************************************************)
\* what a request can carry: both fields, no flight identifier, no date,
\* neither, an empty flight identifier
EntryRequests ==
  { [flightIata |-> AA100, date |-> "2025-03-01"],
    [date |-> "2025-03-01"],
    [flightIata |-> AA100],
    [paxType |-> "domestic"],
    [flightIata |-> <<>>, date |-> "2025-03-01"],
    [flightIata |-> AA100, date |-> "2025-03-01", depIata |-> LAX, arrIata |-> JFK] }

\* !flightIata || !date
Falsy(req) ==
  \/ Field(req, "flightIata", <<>>) = <<>>
  \/ Field(req, "date", "") = ""

\* z.object({flightIata: z.string(), date: z.string(), ...}).parse(args) throws
ZodThrows(args) == "flightIata" \notin DOMAIN args \/ "date" \notin DOMAIN args

\* new Date().toISOString().split('T')[0]
Today == "today"

\* buildRiskBrief(inp) runs up to its first await, for the request req of entry point fn
EnterBrief(fn, req, inp) ==
  /\ input' = inp
  /\ loc' = StartLoc(inp)
  /\ brief' = NoBrief
  /\ bpc' = "flights"
  /\ call' = [fn |-> fn, req |-> req]

\* the entry point answers req without calling buildRiskBrief
Refuse(fn, req, with) ==
  /\ input' = req
  /\ Reject(with)
  /\ call' = [fn |-> fn, req |-> req]

EntryIdle ==
  /\ bpc = "idle" /\ tpc = "idle"
  /\ prev.runs < MaxRuns
  /\ prev' = [runs |-> prev.runs + 1, input |-> input, brief |-> brief]
  /\ UNCHANGED <<now, cache, upVars, tsaVars, ret>>

\* POST /api/tools/risk_brief (risk.ts 1281-1294)
RouteRiskBrief(body) ==
  /\ EntryIdle
  /\ IF Falsy(body)
     THEN Refuse("route", body, "400 Missing required fields: flightIata, date")
     ELSE EnterBrief("route", body, body)

\* the risk_brief tool (server.ts 225-239); the ZodError is answered as isError
ToolRiskBrief(args) ==
  /\ EntryIdle
  /\ IF ZodThrows(args)
     THEN Refuse("tool", args, "isError ZodError Required")
     ELSE EnterBrief("tool", args, args)

\* POST /api/tools, analyze_travel_risk (risk.ts 1402-1489), for the intent
\* parseIntent extracted from the query: a missing date becomes today
DispatchAnalyze(intent) ==
  /\ EntryIdle
  /\ LET withDate == IF Field(intent, "flightIata", <<>>) # <<>> /\ Field(intent, "date", "") = ""
                     THEN [f \in DOMAIN intent \cup {"date"} |->
                             IF f = "date" THEN Today ELSE intent[f]]
                     ELSE intent
     IN  IF ~Falsy(withDate)
         THEN EnterBrief("dispatch", intent,
                [f \in DOMAIN withDate \cap {"flightIata", "date", "depIata", "arrIata", "paxType"}
                   |-> withDate[f]])
         ELSE Refuse("dispatch", intent,
                "400 Could not extract flight information. Please provide flight number and date.")

EntryTsaUp ==
  { [tsa |-> [kind |-> "hang"], news |-> [kind |-> "ok", json |-> [results |-> <<H_lines>>]]],
    [tsa |-> [kind |-> "ok", json |-> [WaitTimes |-> << [Created_Datetime |-> 3, WaitTime |-> 50] >>]],
     news |-> [kind |-> "httpErr"]] }

InitEntry ==
  /\ IdleInit
  /\ call = NoCall /\ ret = NoCall
  /\ upFlights \in {x \in BriefFlightsUp : x.kind = "ok" => x.json.data = <<>>}
  /\ \E a \in {x \in BriefAirportUp(JFK) : x.kind = "ok" /\ "latitude" \in DOMAIN x.data[1]},
          b \in {x \in BriefAirportUp(LAX) : x.kind = "ok" /\ "latitude" \in DOMAIN x.data[1]} :
       upAirport = (JFK :> a) @@ (LAX :> b)
  /\ upForecast = (CoordsOf(JFK) :> [kind |-> "ok", json |-> StormThenCalm])
                  @@ (CoordsOf(LAX) :> [kind |-> "ok", json |-> CalmDay])
  /\ \E w \in EntryTsaUp :
       /\ upTsa = (JFK :> w.tsa) @@ (LAX :> w.tsa)
       /\ upNews = [k \in TsaNewsKinds \cup {"brief"} |->
                      IF k = "brief" THEN [kind |-> "httpErr"] ELSE w.news]

NextEntry ==
  \/ \E body \in EntryRequests : RouteRiskBrief(body)
  \/ \E args \in EntryRequests : ToolRiskBrief(args)
  \/ \E intent \in EntryRequests : DispatchAnalyze(intent)
  \/ BriefFlightsSettle
  \/ BriefGeoDepSettle
  \/ BriefGeoArrSettle
  \/ BriefWxDepSettle
  \/ BriefWxArrSettle
  \/ BriefTsaCall
  \/ TsaFetchSettles
  \/ TsaTimeout
  \/ TsaAirportSettles
  \/ TsaSearchSettles
  \/ BriefTsaSettle
  \/ BriefNewsSettle
  \/ Tick

SpecEntry == InitEntry /\ [][NextEntry]_vars

\* the request being served names no flight or no date
RequestLacksField ==
  /\ call # NoCall
  /\ "flightIata" \notin DOMAIN call.req \/ "date" \notin DOMAIN call.req

MissingFieldSignals ==
  { "400 Missing required fields: flightIata, date",
    "isError ZodError Required",
    "400 Could not extract flight information. Please provide flight number and date." }

\* C13: on each of the three entry points a request without the flight identifier
\* or without the date is answered with a missing-field error, no fetch is
\* pending or was issued for it and no brief is produced.
C13_MissingFieldRejected ==
  RequestLacksField =>
    /\ bpc = "idle" /\ tpc = "idle"
    /\ brief.rejected /\ brief.at \in MissingFieldSignals

(***************************************************************************)
(* C15 (SpecOps): delay bands and status precedence                        *)
(***************************************************************************)
\* |estimated - scheduled| of a leg, 0 when either timestamp is missing
EstimatedDelay(f, leg) ==
  IF leg \in DOMAIN f /\ {"scheduled", "estimated"} \subseteq DOMAIN f[leg]
  THEN Abs(f[leg].estimated - f[leg].scheduled) ELSE 0

\* the same with the actual time standing in for a missing estimate
EstimatedOrActualDelay(f, leg) ==
  IF leg \in DOMAIN f /\ {"scheduled", "estimated"} \subseteq DOMAIN f[leg]
  THEN Abs(f[leg].estimated - f[leg].scheduled)
  ELSE IF leg \in DOMAIN f /\ {"scheduled", "actual"} \subseteq DOMAIN f[leg]
  THEN Abs(f[leg].actual - f[leg].scheduled)
  ELSE 0

StatedBand(d) ==
  CASE d <= 15 -> 5  [] d > 15 /\ d <= 30 -> 15  [] d > 30 /\ d <= 60 -> 35
    [] d > 60 /\ d <= 120 -> 60  [] d > 120 -> 85

StatedOps(status, d) ==
  IF includes(status, <<"c", "a", "n", "c", "e", "l">>) THEN 100
  ELSE IF includes(status, <<"d", "i", "v", "e", "r", "t">>) THEN 95
  ELSE IF includes(status, <<"l", "a", "n", "d", "e", "d">>) THEN 5
  ELSE IF includes(status, <<"a", "c", "t", "i", "v", "e">>) THEN (IF StatedBand(d) > 10 THEN StatedBand(d) ELSE 10)
  ELSE StatedBand(d)

CallSnapshot == F0(call.flights)[1]
CallStatus == toLowerCase(Field(CallSnapshot, "status", <<>>))
OpsReturned == ret.fn = "ops" /\ F0(call.flights) # <<>>

\* C15, as the spec states it: the ops score is the status rule applied to the
\* band of max(|estimated - scheduled| departure, |estimated - scheduled| arrival),
\* a missing timestamp counting as 0.
C15_OpsFromEstimates ==
  OpsReturned =>
    ret.score = StatedOps(CallStatus,
                  IF EstimatedDelay(CallSnapshot, "departure") >= EstimatedDelay(CallSnapshot, "arrival")
                  THEN EstimatedDelay(CallSnapshot, "departure")
                  ELSE EstimatedDelay(CallSnapshot, "arrival"))

\* C15, amended: the same, where a leg without an estimated time is measured by
\* its actual time; the delay is 0 only when the leg has neither or no schedule.
C15_OpsFromEstimatesOrActuals ==
  OpsReturned =>
    ret.score = StatedOps(CallStatus,
                  IF EstimatedOrActualDelay(CallSnapshot, "departure")
                       >= EstimatedOrActualDelay(CallSnapshot, "arrival")
                  THEN EstimatedOrActualDelay(CallSnapshot, "departure")
                  ELSE EstimatedOrActualDelay(CallSnapshot, "arrival"))

\* a landed flight more than two hours late scores 0.05
C15_Witness ==
  /\ OpsReturned
  /\ CallStatus = <<"l", "a", "n", "d", "e", "d">>
  /\ EstimatedDelay(CallSnapshot, "departure") > 120
  /\ ret.score = 5

(***************************************************************************)
(* SpecTsaScore: scoreTsa on series of well-formed and malformed records   *)
(***************************************************************************)
\* seven dated records, out of order, and four malformed ones: no date, a date
\* Date cannot parse, a wait Number cannot read, a negative wait
WaitPool ==
  << [Created_Datetime |-> 4, WaitTime |-> 12],
     [WaitTime |-> 80],
     [Created_Datetime |-> 1, WaitTime |-> 95],
     [Created_Datetime |-> 7, WaitTime |-> 50],
     [Created_Datetime |-> NotFinite, WaitTime |-> 80],
     [Created_Datetime |-> 2, WaitTime |-> 70],
     [Created_Datetime |-> 5, WaitTime |-> 25],
     [Created_Datetime |-> 9, WaitTime |-> NotFinite],
     [Created_Datetime |-> 3, WaitTime |-> 5],
     [Created_Datetime |-> 8, WaitTime |-> -5],
     [Created_Datetime |-> 6, WaitTime |-> 40] >>

\* the records of the pool at the positions I, in the order of the pool
PoolAt(I) ==
  LET idx == SelectSeq([i \in 1..Len(WaitPool) |-> i], LAMBDA i : i \in I)
  IN  [k \in 1..Len(idx) |-> WaitPool[idx[k]]]

NullRecord == [null |-> TRUE]

LeadTimes == {30, 44, 45, 59, 60, 89, 90, 119, 120, 179, 180, 240}

TsaPayloads ==
  { [WaitTimes |-> PoolAt(I)] : I \in SUBSET (1..Len(WaitPool)) }
  \cup { [WaitTimes |-> <<NullRecord>> \o PoolAt({1, 3})], [message |-> "none"] }

InitTsaScore ==
  /\ PureInit
  /\ call \in {[fn |-> "scoreTsa", waitJson |-> w, leadMins |-> l] :
                 w \in TsaPayloads, l \in LeadTimes}

TsaScoreCall ==
  /\ call.fn = "scoreTsa" /\ ret = NoCall
  /\ ret' = [fn |-> "scoreTsa",
             score  |-> scoreTsa(call.waitJson, call.leadMins).score,
             detail |-> scoreTsa(call.waitJson, call.leadMins).detail]
  /\ PureUnchanged

NextTsaScore == TsaScoreCall

SpecTsaScore == InitTsaScore /\ [][NextTsaScore]_vars

\* the records of the call, and those the spec keeps: a timestamp that parses
\* and a numeric, non-negative wait
CallSeries == Field(call.waitJson, "WaitTimes", <<>>)
CallHasNull == \E i \in DOMAIN CallSeries : "null" \in DOMAIN CallSeries[i]
StatedKept ==
  { x \in {CallSeries[i] : i \in DOMAIN CallSeries} :
      /\ "Created_Datetime" \in DOMAIN x /\ x.Created_Datetime # NotFinite
      /\ "WaitTime" \in DOMAIN x /\ x.WaitTime # NotFinite /\ x.WaitTime >= 0 }
\* the at most six of them with the latest timestamps
StatedLatest ==
  { x \in StatedKept :
      Cardinality({y \in StatedKept : y.Created_Datetime > x.Created_Datetime}) < 6 }
RECURSIVE SumWaits(_)
SumWaits(S) ==
  IF S = {} THEN 0 ELSE LET x == CHOOSE x \in S : TRUE IN x.WaitTime + SumWaits(S \ {x})
StatedSum == SumWaits(StatedLatest)
StatedN   == Cardinality(StatedLatest)
StatedMax == CHOOSE m \in {x.WaitTime : x \in StatedLatest} \cup {0} :
               \A x \in StatedLatest : x.WaitTime <= m
TsaScored == ret.fn = "scoreTsa" /\ ~CallHasNull

StatedShortLead(lead) ==
  CASE lead < 45 -> 90 [] lead >= 45 /\ lead < 60 -> 70 [] lead >= 60 /\ lead < 90 -> 40

StatedWaitBand ==
  LET b == CASE StatedSum < 10 * StatedN -> 5
             [] StatedSum >= 10 * StatedN /\ StatedSum < 20 * StatedN -> 15
             [] StatedSum >= 20 * StatedN /\ StatedSum < 30 * StatedN -> 30
             [] StatedSum >= 30 * StatedN /\ StatedSum < 45 * StatedN -> 50
             [] StatedSum >= 45 * StatedN -> 70
      c == IF StatedMax > 60 /\ b < 60 THEN 60 ELSE b
  IN  IF StatedMax > 90 /\ c < 75 THEN 75 ELSE c

GeocodeFails(iata) == upAirport[iata].kind # "ok"
GeocodeNoCoords(iata) ==
  /\ upAirport[iata].kind = "ok"
  /\ \/ upAirport[iata].data = <<>>
     \/ ~({"latitude", "longitude"} \subseteq DOMAIN upAirport[iata].data[1])

\* the airport has coordinates and the forecast for them has no hour
ForecastHasNoHour(iata) ==
  /\ ~GeocodeFails(iata) /\ ~GeocodeNoCoords(iata)
  /\ upForecast[CoordsOf(iata)].kind = "ok"
  /\ flatMapHour(ForecastDays(upForecast[CoordsOf(iata)].json)) = <<>>

NoForecastResolvable(iata) ==
  GeocodeFails(iata) \/ GeocodeNoCoords(iata) \/ ForecastHasNoHour(iata)

NewsScored == ret.fn = "scoreNews" /\ call.hits # <<>> /\ ~ret.throws

\* the classes with a keyword in the lower-cased titles of the call, joined
CallMatched ==
  LET joined == join([i \in 1..Len(call.hits) |-> toLowerCase(call.hits[i].title)],
                     <<" ", "|", " ">>)
  IN  {k \in DOMAIN NewsClasses :
         \E kw \in NewsClasses[k].re : includes(joined, kw)}

\* the classes one article alone matches
ArticleMatched(i) ==
  {k \in DOMAIN NewsClasses :
     \E kw \in NewsClasses[k].re : includes(toLowerCase(call.hits[i].title), kw)}

IntelNoHeadlines ==
  /\ call.fn = "interpretSecurityNews" /\ ret # NoCall
  /\ \/ "newsBackup" \notin DOMAIN call.tsaData
     \/ call.tsaData.newsBackup.headlines = <<>>

\* C21: when the headline set is empty or absent, interpretSecurityNews returns
\* the fixed default estimate (score 0.15, confidence low, no issues, wait
\* bucket unknown) and the generative-text service is not invoked.
C21_NoHeadlinesShortCircuit ==
  IntelNoHeadlines =>
    /\ ~ret.threw
    /\ ret.path = "none"
    /\ ret.value.riskScore = 15
    /\ ret.value.confidence = "low"
    /\ ret.value.keyIssues = <<>>
    /\ ret.value.waitTimeEstimate = "unknown"

\* an empty headline list, with a service that would have answered 0.60
C21_Witness ==
  /\ IntelNoHeadlines
  /\ "newsBackup" \in DOMAIN call.tsaData
  /\ call.llm = [kind |-> "json", json |-> FullEstimate(60)]
  /\ ret.path = "none" /\ ret.value.riskScore = 15

\* the service answered with a score outside [0,1] or without a score
LlmScoreUnusable ==
  /\ call.llm.kind = "json"
  /\ \/ "riskScore" \notin DOMAIN call.llm.json
     \/ call.llm.json.riskScore < 0
     \/ call.llm.json.riskScore > 100

\* C22: every estimate interpretSecurityNews returns has riskScore in [0,1],
\* and a service score that is out of range or missing is replaced by 0.15.
C22_ClampedOrDefault ==
  (call.fn = "interpretSecurityNews" /\ ret # NoCall /\ ~ret.threw) =>
    /\ ret.value.riskScore >= 0 /\ ret.value.riskScore <= 100
    /\ (IntelHadHeadlines /\ LlmScoreUnusable) => ret.value.riskScore = 15

(***************************************************************************)
(* C23 (SpecIntel): the keyword fallback                                   *)
(***************************************************************************)
\* the call took the keyword fallback and it returned
FallbackReturned ==
  /\ call.fn = "interpretSecurityNews" /\ ret # NoCall
  /\ ret.path = "fallback" /\ ~ret.threw

\* the lower-cased titles of the call contain one of the words
TitlesMention(words) ==
  \E w \in words :
    includes(join([i \in 1..Len(call.tsaData.newsBackup.headlines) |->
                     toLowerCase(call.tsaData.newsBackup.headlines[i].title)], <<" ">>), w)

StatedClasses ==
  << [floor |-> 85, words |-> {<<"c", "l", "o", "s", "u", "r", "e">>, <<"c", "l", "o", "s", "e", "d">>, <<"e", "v", "a", "c", "u", "a", "t", "e">>, <<"e", "v", "a", "c", "u", "a", "t", "i", "o", "n">>, <<"s", "h", "u", "t", "d", "o", "w", "n">>}],
     [floor |-> 80, words |-> {<<"b", "o", "m", "b">>, <<"t", "h", "r", "e", "a", "t">>, <<"s", "u", "s", "p", "i", "c", "i", "o", "u", "s", " ", "p", "a", "c", "k", "a", "g", "e">>, <<"s", "e", "c", "u", "r", "i", "t", "y", " ", "b", "r", "e", "a", "c", "h">>}],
     [floor |-> 70, words |-> {<<"s", "t", "r", "i", "k", "e">>, <<"w", "a", "l", "k", "o", "u", "t">>, <<"p", "r", "o", "t", "e", "s", "t">>, <<"l", "a", "b", "o", "r", " ", "a", "c", "t", "i", "o", "n">>}],
     [floor |-> 65, words |-> {<<"o", "u", "t", "a", "g", "e">>, <<"s", "y", "s", "t", "e", "m", " ", "d", "o", "w", "n">>, <<"t", "e", "c", "h", "n", "i", "c", "a", "l", " ", "i", "s", "s", "u", "e">>, <<"c", "o", "m", "p", "u", "t", "e", "r", " ", "p", "r", "o", "b", "l", "e", "m">>}],
     [floor |-> 50, words |-> {<<"l", "o", "n", "g", " ", "l", "i", "n", "e">>, <<"w", "a", "i", "t", " ", "t", "i", "m", "e">>, <<"d", "e", "l", "a", "y">>, <<"s", "l", "o", "w">>, <<"c", "r", "o", "w", "d", "e", "d">>}],
     [floor |-> 45, words |-> {<<"s", "t", "a", "f", "f", " ", "s", "h", "o", "r", "t", "a", "g", "e">>, <<"u", "n", "d", "e", "r", "s", "t", "a", "f", "f", "e", "d">>, <<"s", "h", "o", "r", "t", " ", "s", "t", "a", "f", "f">>}] >>

StatedMatched == {k \in DOMAIN StatedClasses : TitlesMention(StatedClasses[k].words)}

\* C23: the keyword fallback starts from 0.15 and combines its six classes by
\* maximum: each matched class gives at least its floor and the score is the
\* highest of them; confidence is medium iff a class matched, iff the issues
\* list is non-empty, and low otherwise, with the score exactly 0.15.
C23_FallbackByMaximum ==
  FallbackReturned =>
    /\ \A k \in StatedMatched : ret.value.riskScore >= StatedClasses[k].floor
    /\ ret.value.riskScore \in {15} \cup {StatedClasses[k].floor : k \in StatedMatched}
    /\ ret.value.confidence = "medium" <=> StatedMatched # {}
    /\ ret.value.confidence = "medium" <=> ret.value.keyIssues # <<>>
    /\ ret.value.confidence \in {"medium", "low"}
    /\ ret.value.confidence = "low" => ret.value.riskScore = 15

\* a shutdown headline followed by one on understaffed checkpoints: 0.85, not 0.45
C23_Witness ==
  /\ FallbackReturned
  /\ call.tsaData.newsBackup.headlines = <<H_shut1, H_short>>
  /\ StatedMatched = {1, 6}
  /\ ret.value.riskScore = 85
  /\ ret.value.confidence = "medium"

(***************************************************************************)
(* C24 (SpecBrief): recommended actions                                    *)
(***************************************************************************)
\* the advisory aimed at one component
TargetedAdvisory(key) ==
  CASE key = "ops" ->
         "Flight operations are severely impacted. Check airline for rebooking options."
    [] key = "weather_dep" ->
         "Severe weather at departure airport. Expect delays or cancellations."
    [] key = "weather_arr" ->
         "Severe weather at arrival airport. Flight may be diverted."
    [] key = "tsa" ->
         "TSA wait times are critical. Arrive at least 3 hours early or use TSA PreCheck/CLEAR."

Advised(key) ==
  \E j \in DOMAIN brief.recommendedActions : brief.recommendedActions[j] = TargetedAdvisory(key)

\* C24: the recommended actions are never empty, and in tier red the advisory
\* aimed at ops, weather_dep, weather_arr or tsa is in the list exactly when
\* that component's score exceeds 0.5.
C24_TargetedAdvisories ==
  brief.returned =>
    /\ brief.recommendedActions # <<>>
    /\ brief.tier = "red" =>
         \A i \in 1..4 :
           Advised(brief.components[i].key) <=> brief.components[i].score > 50

(***************************************************************************)
(* C25 (SpecEntry): the operations fetch comes first                       *)
(***************************************************************************)
\* the stages of a run in which an airport lookup, a forecast fetch or the
\* wait-time fetch is pending or about to be issued
DownstreamStages == {"geoDep", "geoArr", "wxDep", "wxArr", "tsa", "tsaWait"}

\* the airport code of a leg in the answer of the flights endpoint (the mock
\* flight when the fetch failed), the empty string when it names no flight
PayloadIata(leg) ==
  IF upFlights.kind = "ok"
  THEN LegIata(F0(upFlights.json), leg)
  ELSE LegIata(F0(getMockFlightData(input.flightIata)), leg)

\* the code the caller supplied when there is one, else the payload's
ResolvedIata(field, leg) ==
  IF field \in DOMAIN input /\ input[field] # <<>> THEN input[field] ELSE PayloadIata(leg)

\* C25: in every run of buildRiskBrief a stage that looks an airport up, fetches
\* a forecast or fetches the wait times is entered only from the settled
\* operations fetch or from an earlier such stage, the wait-time fetch is in
\* flight only in its own stage, and the codes those stages use are the
\* caller's when supplied and the operations payload's otherwise.
C25_OpsFetchFirst ==
  [][ /\ bpc' \in DownstreamStages =>
           /\ bpc \in DownstreamStages \cup {"flights"}
           /\ loc'.dep = ResolvedIata("depIata", "departure")
           /\ loc'.arr = ResolvedIata("arrIata", "arrival")
      /\ tpc' # "idle" => bpc' = "tsaWait"
      /\ cache' # cache => bpc \notin {"idle"}
    ]_vars

\* a brief for a request naming LAX -> JFK, over a payload that says JFK -> LAX
C25_Witness ==
  /\ brief.returned
  /\ Field(input, "depIata", <<>>) = LAX
  /\ PayloadIata("departure") = JFK
  /\ brief.depIata = LAX /\ brief.arrIata = JFK


(***************************************************************************)
(* C26: the four fetches of a brief, and whether they overlap              *)
(***************************************************************************)
\* the stages at which one of the four fetches is awaited (risk.ts 966,
\* 971, 979, 985)
FetchStages == {"wxDep", "wxArr", "tsaWait", "news"}

\* the fetches whose promise has been created and has not yet settled: the
\* run awaits each promise on the line that creates it
InFlight == IF bpc \in FetchStages THEN {bpc} ELSE {}

\* the fetches of FetchStages this run has yet to dispatch
ToDispatch ==
  CASE bpc = "wxDep"   -> {PcWxArr(loc), PcTsa(loc), "news"}
    [] bpc = "wxArr"   -> {PcTsa(loc), "news"}
    [] bpc = "tsaWait" -> {"news"}
    [] OTHER           -> {}

\* C26: once the airport codes are known the departure-weather,
\* arrival-weather, checkpoint-wait and news fetches are dispatched
\* together: while one of them is in flight none of the others is still
\* waiting to be dispatched
C26_FetchesConcurrent ==
  InFlight # {} => ToDispatch = {}


(***************************************************************************)
(* C27: the resolver under a runtime that delivers every answer that has   *)
(* arrived and fires every timer that is due                               *)
(***************************************************************************)
FairTsa ==
  /\ WF_vars(TsaFetchSettles)
  /\ WF_vars(TsaTimeout)
  /\ WF_vars(TsaAirportSettles)
  /\ WF_vars(TsaSearchSettles)

\* every answer of the wait-time and airports endpoints, the headline searches
\* drawn from fewer answers; no time passes between the calls
InitTsaLive ==
  /\ IdleInit
  /\ call = NoCall /\ ret = NoCall
  /\ upFlights = [kind |-> "netErr"]
  /\ upForecast = << >>
  /\ upTsa \in [{JFK} -> TsaUp]
  /\ upAirport \in [{JFK} -> AirportUp(JFK)]
  /\ \E f \in [{"line"} -> TsaNewsUp], g \in [{"tsa", "checkpoint", "wait"} -> TsaNewsUpLate] :
       upNews = [k \in TsaNewsKinds \cup {"brief"} |->
                   IF k = "brief" THEN [kind |-> "httpErr"]
                   ELSE IF k \in DOMAIN f THEN f[k] ELSE g[k]]

NextTsaLive ==
  \/ ToolTsaCall(JFK)
  \/ TsaFetchSettles
  \/ TsaTimeout
  \/ TsaAirportSettles
  \/ TsaSearchSettles
  \/ ToolTsaReturn

SpecTsaLive == InitTsaLive /\ [][NextTsaLive]_vars /\ FairTsa

Provenances == {"tsa_api", "news_fallback", "no_data"}

TsaReturned == tpc = "done" /\ tsaOut.result.dataSource \in Provenances

PrimaryHangs == tpc = "fetch" /\ upTsa[toUpperCase(tloc.iata)].kind = "hang"

StoredBackup == cacheGet(cache, TsaNewsKey(tloc.iata))

\* C28: a call for an airport whose fallback result is stored and within
\* its 30 minutes is answered from that result: it issues neither the
\* primary fetch nor the airport lookup nor the headline searches
C28_FallbackCacheAnswers ==
  StoredBackup # <<>> =>
    /\ tpc \notin {"fetch", "airport", "search"}
    /\ tpc = "done" => tsaOut.result = StoredBackup[1]


(***************************************************************************)
(* C29 (SpecNews): the news score against the empty-batch score            *)
(***************************************************************************)
NewsAnswered == ret.fn = "scoreNews" /\ ~ret.throws

StatedBucket(riskScore) ==
  IF riskScore >= 80 THEN "severe"
  ELSE IF riskScore >= 65 THEN "high"
  ELSE IF riskScore >= 45 THEN "moderate"
  ELSE "unknown"

\* C30: in the keyword fallback estimate the wait bucket agrees with the
\* class that determined the score: severe from 0.80, high from 0.65,
\* moderate from 0.45, and unknown at 0.15 when nothing matched.
C30_BucketAgreesWithScore ==
  FallbackReturned =>
    ret.value.waitTimeEstimate = StatedBucket(ret.value.riskScore)

====
